---------------------------- MODULE Spec2Model ----------------------------
(***************************************************************************)
(* Model of the token-extraction and brand-colour pipeline of              *)
(* Get-Site-Styles-API:                                                    *)
(*   - analyzeColors / assignRoles            (src/src/color-analysis.ts)  *)
(*   - generateShadcnTheme, dark-mode helpers (src/src/color-analysis.ts)  *)
(*   - mergeFrequencies, MultiSourceAnalyzer  (src/src/security.ts)        *)
(*   - resolveVar                             (src/unnamed/part_002)       *)
(*                                                                         *)
(* A colour literal is a record [fmt, r, g, b, a]: its syntactic form and  *)
(* the numbers written in it.  "#1a73e8" is Hex6(26,115,232), "#fff" is    *)
(* Hex3(255,255,255), "#1a73e880" is Hex8(26,115,232,128),                 *)
(* "rgba(0,0,0,0.1)" is Rgba(0,0,0,1) (alpha in tenths).  Two records are  *)
(* equal exactly when the two literals are the same lower-case string.     *)
(*                                                                         *)
(* The module holds one specification per operation of the program; the    *)
(* variables of the other operations stay at their idle values.            *)
(***************************************************************************)
EXTENDS Integers, Sequences, FiniteSets, TLC

VARIABLES
    pc,                 \* position of the running operation
    \* analyzeColors(colors, variableColors, semanticData, html, css)
    colors,             \* <<[value, count]>>
    variableColors,     \* <<[value, references]>>
    semanticData,       \* <<[color, firstSeenIndex, domDepth, documentPosition, weight, context]>>
    frameworkAnalysis,  \* the detected frameworks ({} when undefined or none)
    analyses,           \* ColorAnalysis[] returned
    \* generateShadcnTheme(colorAnalyses, colorFormat)
    colorAnalyses,
    colorFormat,
    theme,              \* [light |-> map, dark |-> map or "absent"]
    \* adjustColorForDarkMode(color, role, format)
    dmColor,
    dmRole,
    dmFormat,
    dmResult,
    \* MultiSourceAnalyzer.analyzeMultipleSources(urls, extractTokensFromCss)
    urls,
    urlIdx,
    sources,            \* SourceMetadata[]
    sourceTokens,       \* url -> colour frequency table
    mergedTokens,       \* merged frequency table, or "none"
    \* resolveVar(value, customProperties, seen)
    customProperties,
    rvStack,            \* call stack of resolveVar frames
    rvSeen,             \* the seen set shared by all frames
    rvReturn,           \* value returned by the outermost call, or "none"
    rvSteps,            \* loop iterations executed so far
    \* ApiKeyService and the Express middleware chain of GetSiteStylesServer
    now,                \* Date.now(), in ticks
    apiKeys,            \* the ApiKey record the requests present
    rateLimitStore,     \* the entry `${apiKey.id}:ratelimit`
    requests,           \* the requests received so far and their stage
    apiHistory,         \* what the service decided so far: rate checks, acceptances
    \* one call of a pure function: its argument and what it returned
    fnInput,
    fnOutput

vars == <<pc, colors, variableColors, semanticData, frameworkAnalysis, analyses,
          colorAnalyses, colorFormat, theme, dmColor, dmRole, dmFormat,
          dmResult,
          urls, urlIdx, sources, sourceTokens, mergedTokens,
          customProperties, rvStack, rvSeen, rvReturn, rvSteps,
          now, apiKeys, rateLimitStore, requests, apiHistory,
          fnInput, fnOutput>>

rolesVars   == <<colors, variableColors, semanticData, frameworkAnalysis, analyses>>
themeVars   == <<colorAnalyses, colorFormat, theme>>
darkVars    == <<dmColor, dmRole, dmFormat, dmResult>>
multiVars   == <<urls, urlIdx, sources, sourceTokens, mergedTokens>>
resolveVars == <<customProperties, rvStack, rvSeen, rvReturn, rvSteps>>
apiVars     == <<now, apiKeys, rateLimitStore, requests, apiHistory>>
fnVars      == <<fnInput, fnOutput>>

-----------------------------------------------------------------------------
(* Generic helpers                                                         *)

Max2(a, b) == IF a >= b THEN a ELSE b
Min2(a, b) == IF a <= b THEN a ELSE b

\* Math.round(n / d) for n >= 0, d > 0: floor(n/d + 1/2)
RoundDiv(n, d) == (2 * n + d) \div (2 * d)

RECURSIVE SumSeq(_)
SumSeq(s) == IF s = <<>> THEN 0 ELSE Head(s) + SumSeq(Tail(s))

\* Insert x into a sequence sorted by descending key, after every element
\* whose key is >= x.key: Array.prototype.sort is stable.
RECURSIVE InsertDesc(_, _)
InsertDesc(sorted, x) ==
    IF sorted = <<>> THEN <<x>>
    ELSE IF Head(sorted).key < x.key THEN <<x>> \o sorted
    ELSE <<Head(sorted)>> \o InsertDesc(Tail(sorted), x)

RECURSIVE SortDescFrom(_, _)
SortDescFrom(sorted, rest) ==
    IF rest = <<>> THEN sorted
    ELSE SortDescFrom(InsertDesc(sorted, Head(rest)), Tail(rest))

\* arr.sort((a, b) => b.key - a.key)
SortDesc(s) == SortDescFrom(<<>>, s)

-----------------------------------------------------------------------------
(* Colour literals                                                         *)

Hex6(r, g, b)    == [fmt |-> "hex6", r |-> r, g |-> g, b |-> b, a |-> 0]
Hex3(r, g, b)    == [fmt |-> "hex3", r |-> r, g |-> g, b |-> b, a |-> 0]
Hex8(r, g, b, a) == [fmt |-> "hex8", r |-> r, g |-> g, b |-> b, a |-> a]
Rgb(r, g, b)     == [fmt |-> "rgb",  r |-> r, g |-> g, b |-> b, a |-> 0]
Rgba(r, g, b, a) == [fmt |-> "rgba", r |-> r, g |-> g, b |-> b, a |-> a]

\* colorToHsl: the HSL triple of the literal's red, green and blue numbers.
\* Every supported form is read into r, g, b (the alpha of an 8-digit hex and
\* the fourth number of rgba() are not read), then converted; the three
\* Math.round calls are the RoundDiv below.
RgbToHsl(r, g, b) ==
    LET max  == Max2(r, Max2(g, b))
        min  == Min2(r, Min2(g, b))
        diff == max - min
        l    == RoundDiv((max + min) * 100, 510)
        s    == IF diff = 0 THEN 0
                ELSE IF max + min > 255 THEN RoundDiv(diff * 100, 510 - max - min)
                ELSE RoundDiv(diff * 100, max + min)
        h    == IF diff = 0 THEN 0
                ELSE IF max = r
                     THEN RoundDiv(60 * (g - b) + (IF g < b THEN 360 * diff ELSE 0), diff)
                ELSE IF max = g
                     THEN RoundDiv(60 * (b - r) + 120 * diff, diff)
                ELSE RoundDiv(60 * (r - g) + 240 * diff, diff)
    IN  [h |-> h, s |-> s, l |-> l]

colorToHsl(color) == RgbToHsl(color.r, color.g, color.b)

\* stripOpacity: rgba() becomes rgb(), an 8-digit hex loses its last two digits
stripOpacity(color) ==
    IF color.fmt = "rgba" THEN Rgb(color.r, color.g, color.b)
    ELSE IF color.fmt = "hex8" THEN Hex6(color.r, color.g, color.b)
    ELSE color

\* normalizeColorToHex: the 6-digit hex of the literal; a 6-digit hex is
\* returned as it is, a 3-digit hex is doubled, an 8-digit hex is cut, and
\* rgb()/rgba() are rounded and written in hex.
normalizeColorToHex(color) ==
    IF color.fmt = "hex6" THEN color
    ELSE Hex6(color.r, color.g, color.b)

\* hasOpacity as computed inside analyzeColors
hasOpacity(color) == color.fmt \in {"rgba", "hex8"}

commonColors ==
    {
      Hex6(255, 255, 255), Hex3(255, 255, 255), Hex6(0, 0, 0),
      Hex3(0, 0, 0), Hex6(245, 245, 245), Hex6(240, 240, 240),
      Hex6(229, 229, 229), Hex6(224, 224, 224), Hex6(208, 208, 208),
      Hex6(204, 204, 204), Hex6(192, 192, 192), Hex6(153, 153, 153),
      Hex6(136, 136, 136), Hex6(119, 119, 119), Hex6(102, 102, 102),
      Hex6(85, 85, 85), Hex6(68, 68, 68), Hex6(51, 51, 51),
      Hex6(248, 249, 250), Hex6(233, 236, 239), Hex6(222, 226, 230),
      Hex6(206, 212, 218), Hex6(173, 181, 189), Hex6(108, 117, 125),
      Hex6(73, 80, 87), Hex6(52, 58, 64), Hex6(33, 37, 41)
    }

isCommonWebColor(hex) == hex \in commonColors

browserDefaults ==
    {
      Hex6(0, 0, 238), Hex6(0, 0, 255), Hex6(0, 102, 204),
      Hex6(0, 128, 255), Hex6(0, 153, 255), Hex6(30, 144, 255),
      Hex6(65, 105, 225), Hex6(128, 0, 128), Hex6(139, 0, 139),
      Hex6(153, 50, 204), Hex6(102, 51, 153), Hex6(0, 95, 204),
      Hex6(0, 120, 212), Hex6(0, 102, 255), Hex6(33, 124, 232),
      Hex6(37, 99, 235), Hex6(0, 120, 215), Hex6(16, 110, 190),
      Hex6(102, 175, 233), Hex6(128, 189, 255), Hex6(0, 123, 255),
      Hex6(25, 118, 210), Hex6(33, 150, 243), Hex6(66, 165, 245)
    }

isBrowserDefaultColor(hex) == hex \in browserDefaults

frameworkColors ==
    {
      Hex6(13, 110, 253), Hex6(102, 16, 242), Hex6(111, 66, 193),
      Hex6(214, 51, 132), Hex6(220, 53, 69), Hex6(253, 126, 20),
      Hex6(255, 193, 7), Hex6(25, 135, 84), Hex6(32, 201, 151),
      Hex6(13, 202, 240), Hex6(0, 123, 255), Hex6(108, 117, 125),
      Hex6(40, 167, 69), Hex6(23, 162, 184), Hex6(248, 249, 250),
      Hex6(233, 236, 239), Hex6(222, 226, 230), Hex6(206, 212, 218),
      Hex6(173, 181, 189), Hex6(73, 80, 87), Hex6(52, 58, 64),
      Hex6(33, 37, 41), Hex6(25, 118, 210), Hex6(56, 142, 60),
      Hex6(245, 124, 0), Hex6(123, 31, 162), Hex6(93, 64, 55),
      Hex6(69, 90, 100), Hex6(229, 57, 53), Hex6(0, 172, 193),
      Hex6(251, 192, 45), Hex6(255, 87, 34), Hex6(121, 85, 72),
      Hex6(96, 125, 139), Hex6(59, 130, 246), Hex6(239, 68, 68),
      Hex6(16, 185, 129), Hex6(245, 158, 11), Hex6(139, 92, 246),
      Hex6(6, 182, 212), Hex6(132, 204, 22), Hex6(249, 115, 22),
      Hex6(236, 72, 153), Hex6(99, 102, 241), Hex6(92, 184, 92),
      Hex6(91, 192, 222), Hex6(51, 122, 183), Hex6(217, 83, 79),
      Hex6(240, 173, 78), Hex6(0, 115, 230)
    }

isFrameworkColor(hex) == hex \in frameworkColors

\* analyzeFrameworkUsage(...).frameworkColors: the commonColors of every
\* framework whose detection score exceeded 20
detectedFrameworkColors(detected) ==
    (IF "bootstrap" \in detected
     THEN {Hex6(13, 110, 253), Hex6(102, 16, 242), Hex6(111, 66, 193),
           Hex6(220, 53, 69), Hex6(25, 135, 84), Hex6(255, 193, 7),
           Hex6(32, 201, 151)}
     ELSE {})
    \cup
    (IF "material" \in detected
     THEN {Hex6(25, 118, 210), Hex6(56, 142, 60), Hex6(245, 124, 0),
           Hex6(123, 31, 162), Hex6(229, 57, 53), Hex6(0, 172, 193)}
     ELSE {})
    \cup
    (IF "tailwind" \in detected
     THEN {Hex6(59, 130, 246), Hex6(239, 68, 68), Hex6(16, 185, 129),
           Hex6(245, 158, 11), Hex6(139, 92, 246), Hex6(6, 182, 212)}
     ELSE {})

-----------------------------------------------------------------------------
(* Colour encodings and the dark-mode adjustments                          *)

\* A formatted value is a record that is equal to another exactly when the
\* two strings are equal: "214 82% 51%" is HslText(214, 82, 51);
\* "oklch(0.574 0.195 257.858)" is OklchText(574, 195, 257858, TRUE), numbers
\* in thousandths, the flag telling whether each is written with three
\* decimals (toFixed(3)) or as the shortest literal ("oklch(1 0 0)"); a hex
\* value is the colour literal itself.
HslText(h, s, l) == [fmt |-> "hsltext", h |-> h, s |-> s, l |-> l]

OklchText(l, c, h, fixed) ==
    [fmt |-> "oklch", l |-> l, c |-> c, h |-> h, fixed3 |-> fixed]

\* rgbToOklch followed by toFixed(3), tabulated for the colours the
\* specifications use: <<r, g, b, l, c, h>> with l, c, h in thousandths.
\* (The hue of an achromatic colour is the atan2 of rounding noise.)
OklchTable ==
    <<
      <<0, 0, 0, 0, 0, 0>>,
      <<0, 0, 64, 168, 116, 264052>>,
      <<0, 0, 128, 271, 188, 264052>>,
      <<0, 0, 191, 364, 252, 264052>>,
      <<0, 0, 255, 452, 313, 264052>>,
      <<0, 64, 0, 322, 110, 142495>>,
      <<0, 64, 64, 336, 57, 194769>>,
      <<0, 64, 128, 376, 123, 254677>>,
      <<0, 64, 191, 434, 206, 262345>>,
      <<0, 64, 255, 501, 280, 263821>>,
      <<0, 128, 0, 520, 177, 142495>>,
      <<0, 128, 64, 525, 138, 152155>>,
      <<0, 128, 128, 543, 93, 194769>>,
      <<0, 128, 191, 573, 134, 240994>>,
      <<0, 128, 255, 615, 211, 256099>>,
      <<0, 191, 0, 697, 237, 142495>>,
      <<0, 191, 64, 700, 213, 146243>>,
      <<0, 191, 128, 710, 159, 160777>>,
      <<0, 191, 191, 729, 124, 194769>>,
      <<0, 191, 255, 755, 153, 231639>>,
      <<0, 255, 0, 866, 295, 142495>>,
      <<0, 255, 64, 868, 278, 144405>>,
      <<0, 255, 128, 875, 234, 151185>>,
      <<0, 255, 191, 887, 183, 166546>>,
      <<0, 255, 255, 905, 155, 194769>>,
      <<64, 0, 0, 233, 96, 29234>>,
      <<64, 0, 64, 261, 120, 328363>>,
      <<64, 0, 128, 322, 176, 295817>>,
      <<64, 0, 191, 396, 238, 280985>>,
      <<64, 0, 255, 474, 301, 273856>>,
      <<64, 64, 0, 360, 78, 109769>>,
      <<64, 64, 64, 371, 0, 89876>>,
      <<64, 64, 128, 406, 105, 280645>>,
      <<64, 64, 191, 457, 193, 275589>>,
      <<64, 64, 255, 519, 269, 271930>>,
      <<64, 128, 0, 536, 157, 135205>>,
      <<64, 128, 64, 541, 117, 143755>>,
      <<64, 128, 128, 558, 66, 195434>>,
      <<64, 128, 191, 587, 117, 250170>>,
      <<64, 128, 255, 627, 201, 262180>>,
      <<64, 191, 0, 706, 225, 139545>>,
      <<64, 191, 64, 709, 200, 143100>>,
      <<64, 191, 128, 719, 145, 157596>>,
      <<64, 191, 191, 737, 109, 195054>>,
      <<64, 191, 255, 763, 142, 235398>>,
      <<64, 255, 0, 872, 287, 140971>>,
      <<64, 255, 64, 874, 270, 142829>>,
      <<64, 255, 128, 881, 226, 149507>>,
      <<64, 255, 191, 893, 173, 165093>>,
      <<64, 255, 255, 911, 144, 194919>>,
      <<128, 0, 0, 377, 155, 29234>>,
      <<128, 0, 64, 388, 157, 670>>,
      <<128, 0, 128, 421, 193, 328363>>,
      <<128, 0, 191, 470, 241, 307707>>,
      <<128, 0, 255, 530, 293, 293938>>,
      <<128, 64, 0, 444, 109, 55466>>,
      <<128, 64, 64, 452, 89, 21173>>,
      <<128, 64, 128, 477, 123, 327293>>,
      <<128, 64, 191, 516, 191, 303446>>,
      <<128, 64, 255, 567, 260, 290960>>,
      <<128, 128, 0, 581, 127, 109769>>,
      <<128, 128, 64, 585, 86, 108794>>,
      <<128, 128, 128, 600, 0, 89876>>,
      <<128, 128, 191, 625, 94, 283336>>,
      <<128, 128, 255, 661, 184, 280131>>,
      <<128, 191, 0, 734, 196, 129451>>,
      <<128, 191, 64, 736, 171, 131996>>,
      <<128, 191, 128, 746, 110, 144372>>,
      <<128, 191, 191, 762, 64, 195883>>,
      <<128, 191, 255, 787, 112, 249795>>,
      <<128, 255, 0, 891, 264, 135892>>,
      <<128, 255, 64, 893, 247, 137529>>,
      <<128, 255, 128, 899, 202, 143665>>,
      <<128, 255, 191, 910, 146, 159558>>,
      <<128, 255, 255, 928, 113, 195376>>,
      <<191, 0, 0, 505, 207, 29234>>,
      <<191, 0, 64, 512, 205, 14514>>,
      <<191, 0, 128, 532, 223, 349029>>,
      <<191, 0, 191, 565, 259, 328363>>,
      <<191, 0, 255, 609, 303, 312944>>,
      <<191, 64, 0, 547, 173, 39636>>,
      <<191, 64, 64, 552, 163, 24179>>,
      <<191, 64, 128, 569, 174, 352929>>,
      <<191, 64, 191, 598, 216, 327861>>,
      <<191, 64, 255, 638, 269, 311244>>,
      <<191, 128, 0, 648, 137, 74483>>,
      <<191, 128, 64, 652, 112, 63953>>,
      <<191, 128, 128, 664, 79, 19358>>,
      <<191, 128, 191, 685, 114, 326734>>,
      <<191, 128, 255, 716, 186, 305080>>,
      <<191, 191, 0, 779, 170, 109769>>,
      <<191, 191, 64, 781, 146, 109345>>,
      <<191, 191, 128, 790, 83, 108159>>,
      <<191, 191, 191, 805, 0, 89876>>,
      <<191, 191, 255, 827, 89, 284276>>,
      <<191, 255, 0, 922, 234, 125887>>,
      <<191, 255, 64, 924, 218, 126915>>,
      <<191, 255, 128, 930, 171, 131096>>,
      <<191, 255, 191, 941, 107, 144667>>,
      <<191, 255, 255, 957, 64, 196138>>,
      <<255, 0, 0, 628, 258, 29234>>,
      <<255, 0, 64, 632, 254, 20849>>,
      <<255, 0, 128, 645, 260, 2471>>,
      <<255, 0, 191, 668, 286, 343809>>,
      <<255, 0, 255, 702, 322, 328363>>,
      <<255, 64, 0, 656, 233, 34524>>,
      <<255, 64, 64, 660, 227, 26029>>,
      <<255, 64, 128, 672, 228, 6077>>,
      <<255, 64, 191, 693, 252, 345038>>,
      <<255, 64, 255, 724, 293, 328089>>,
      <<255, 128, 0, 732, 186, 52985>>,
      <<255, 128, 64, 735, 173, 45092>>,
      <<255, 128, 128, 744, 155, 21504>>,
      <<255, 128, 191, 762, 168, 350798>>,
      <<255, 128, 255, 787, 214, 327373>>,
      <<255, 191, 0, 840, 172, 84076>>,
      <<255, 191, 64, 843, 154, 80380>>,
      <<255, 191, 128, 850, 108, 65044>>,
      <<255, 191, 191, 863, 74, 18695>>,
      <<255, 191, 255, 883, 110, 326459>>,
      <<255, 255, 0, 968, 211, 109769>>,
      <<255, 255, 64, 970, 195, 109544>>,
      <<255, 255, 128, 975, 149, 108877>>,
      <<255, 255, 191, 985, 81, 107803>>,
      <<255, 255, 255, 1000, 0, 89876>>,
      <<26, 115, 232, 574, 195, 257858>>,
      <<251, 188, 5, 830, 170, 83993>>,
      <<234, 67, 53, 626, 206, 29077>>,
      <<232, 234, 237, 936, 5, 258325>>,
      <<139, 92, 246, 606, 219, 292717>>,
      <<245, 245, 245, 970, 0, 89876>>,
      <<51, 51, 51, 321, 0, 89876>>
    >>

rgbToOklch(r, g, b) ==
    LET i == CHOOSE k \in 1..Len(OklchTable) :
                 /\ OklchTable[k][1] = r
                 /\ OklchTable[k][2] = g
                 /\ OklchTable[k][3] = b
    IN  [l |-> OklchTable[i][4], c |-> OklchTable[i][5], h |-> OklchTable[i][6]]

colorToOklch(color) ==
    LET o == rgbToOklch(color.r, color.g, color.b)
    IN  OklchText(o.l, o.c, o.h, TRUE)

\* variant: hue2rgb without its interpolation branches
hue2rgbFlat(p, q, t) == RoundDiv(60 * p * 17, 400000)

\* Math.round(hue2rgb(p, q, t) * 255): p and q in 1/100000, t in degrees;
\* n is the result in 1/6000000 and n * 255 / 6000000 = n * 17 / 400000
hue2rgb(p, q, t) ==
    LET t1 == IF t < 0 THEN t + 360 ELSE t
        t2 == IF t1 > 360 THEN t1 - 360 ELSE t1
        n  == IF t2 < 60 THEN 60 * p + (q - p) * t2
              ELSE IF t2 < 180 THEN 60 * q
              ELSE IF t2 < 240 THEN 60 * p + (q - p) * (240 - t2)
              ELSE 60 * p
    IN  RoundDiv(n * 17, 400000)

\* Inputs <<h, s, l10, channel>> of hslToHex for which the double-precision
\* product r * 255 falls just below a half that the exact product reaches, so
\* that Math.round yields one less than the exact rounding (computed with
\* IEEE-754 doubles for the colours the specifications use).
hslToHexBelowHalf ==
    {<<0, 50, 200, 2>>, <<0, 50, 200, 3>>, <<0, 80, 500, 2>>, <<0, 80, 500, 3>>,
     <<0, 100, 950, 2>>, <<0, 100, 950, 3>>, <<4, 100, 950, 3>>, <<5, 100, 950, 3>>,
     <<9, 100, 950, 3>>, <<20, 100, 150, 2>>, <<26, 80, 500, 3>>, <<29, 80, 500, 3>>,
     <<30, 50, 200, 3>>, <<30, 100, 300, 2>>, <<40, 100, 850, 2>>, <<54, 100, 500, 2>>,
     <<59, 80, 500, 3>>, <<60, 50, 200, 3>>, <<60, 80, 500, 1>>, <<60, 80, 500, 3>>,
     <<60, 100, 50, 1>>, <<60, 100, 150, 1>>, <<60, 100, 250, 1>>, <<60, 100, 450, 1>>,
     <<60, 100, 950, 3>>, <<61, 80, 500, 3>>, <<72, 100, 750, 1>>, <<80, 100, 850, 1>>,
     <<90, 50, 200, 3>>, <<91, 80, 500, 3>>, <<94, 80, 500, 3>>, <<100, 100, 150, 1>>,
     <<100, 100, 250, 1>>, <<105, 100, 200, 1>>, <<108, 100, 250, 1>>, <<111, 100, 950, 3>>,
     <<115, 100, 950, 3>>, <<116, 100, 950, 3>>, <<120, 50, 200, 1>>, <<120, 50, 200, 3>>,
     <<120, 80, 500, 1>>, <<120, 80, 500, 3>>, <<120, 100, 950, 1>>, <<120, 100, 950, 3>>,
     <<124, 100, 950, 1>>, <<125, 100, 950, 1>>, <<126, 100, 500, 3>>, <<129, 100, 950, 1>>,
     <<132, 100, 250, 3>>, <<146, 80, 500, 1>>, <<149, 80, 500, 1>>, <<150, 50, 200, 1>>,
     <<160, 100, 850, 3>>, <<179, 80, 500, 1>>, <<180, 50, 200, 1>>, <<180, 80, 500, 1>>,
     <<180, 80, 500, 2>>, <<180, 100, 50, 2>>, <<180, 100, 150, 2>>, <<180, 100, 250, 2>>,
     <<180, 100, 450, 2>>, <<180, 100, 950, 1>>, <<181, 80, 500, 1>>, <<186, 100, 500, 2>>,
     <<192, 100, 750, 2>>, <<200, 100, 850, 2>>, <<210, 50, 200, 1>>, <<210, 50, 500, 2>>,
     <<210, 100, 300, 2>>, <<210, 100, 500, 2>>, <<211, 80, 500, 1>>, <<214, 80, 500, 1>>,
     <<220, 100, 150, 2>>, <<220, 100, 250, 2>>, <<225, 100, 200, 2>>, <<228, 100, 250, 2>>,
     <<231, 100, 950, 1>>, <<234, 100, 500, 2>>, <<235, 100, 950, 1>>, <<236, 100, 950, 1>>,
     <<240, 50, 200, 1>>, <<240, 50, 200, 2>>, <<240, 80, 500, 1>>, <<240, 80, 500, 2>>,
     <<240, 100, 950, 1>>, <<240, 100, 950, 2>>, <<244, 100, 950, 2>>, <<245, 100, 950, 2>>,
     <<246, 100, 500, 1>>, <<249, 100, 950, 2>>, <<252, 100, 250, 1>>, <<266, 80, 500, 2>>,
     <<269, 80, 500, 2>>, <<270, 50, 200, 2>>, <<270, 50, 500, 1>>, <<270, 100, 300, 1>>,
     <<270, 100, 500, 1>>, <<288, 100, 750, 1>>, <<294, 100, 500, 1>>, <<299, 80, 500, 2>>,
     <<300, 50, 200, 2>>, <<300, 80, 500, 2>>, <<300, 80, 500, 3>>, <<300, 100, 50, 3>>,
     <<300, 100, 150, 3>>, <<300, 100, 250, 3>>, <<300, 100, 450, 3>>, <<300, 100, 950, 2>>,
     <<301, 80, 500, 2>>, <<312, 100, 750, 3>>, <<315, 100, 200, 3>>, <<320, 100, 850, 3>>,
     <<330, 50, 200, 2>>, <<331, 80, 500, 2>>, <<334, 80, 500, 2>>, <<340, 100, 150, 3>>,
     <<340, 100, 250, 3>>, <<345, 100, 200, 3>>, <<348, 100, 250, 3>>, <<351, 100, 950, 2>>,
     <<355, 100, 950, 2>>, <<356, 100, 950, 2>>}

channelOf(h, s, l10, ch, exact) ==
    IF <<h, s, l10, ch>> \in hslToHexBelowHalf THEN exact - 1 ELSE exact

\* hslToHex({h, s, l}): h in degrees, s in percent, l in tenths of a percent
\* (the dark-mode adjustments produce fractional lightness)
hslToHex(h, s, l10) ==
    IF s = 0
    THEN LET v == RoundDiv(l10 * 255, 1000) IN Hex6(v, v, v)
    ELSE LET q == IF l10 < 500 THEN l10 * (100 + s)
                  ELSE l10 * 100 + s * 1000 - l10 * s
             p == 200 * l10 - q
         IN  Hex6(channelOf(h, s, l10, 1, hue2rgb(p, q, h + 120)),
                  channelOf(h, s, l10, 2, hue2rgb(p, q, h)),
                  channelOf(h, s, l10, 3, hue2rgb(p, q, h - 120)))

colorToHslSpaceSeparated(color) ==
    LET hsl == colorToHsl(color) IN HslText(hsl.h, hsl.s, hsl.l)

convertColorToFormat(color, format) ==
    CASE format = "hsl"   -> colorToHslSpaceSeparated(color)
      [] format = "oklch" -> colorToOklch(color)
      [] format = "hex"   -> normalizeColorToHex(color)

\* Lightness values (thousandths) whose double-precision half falls just
\* below the tie, so that toFixed(3) rounds it down
halfBelowTie ==
    {371, 421, 477, 565, 567, 569, 573, 581, 585, 587, 609, 615, 693, 697, 709, 719, 729, 735, 737, 827, 843, 863, 941, 957, 975, 985}

\* (l * 0.5).toFixed(3) and (l * 0.4).toFixed(3) in thousandths
halfOf(l) == IF l \in halfBelowTie THEN (l - 1) \div 2 ELSE RoundDiv(l * 5, 10)

fourTenthsOf(l) == RoundDiv(l * 4, 10)

\* adjustOklchForDarkMode: the lightness, parsed from the three-decimal text,
\* is clamped per role and written back with toFixed(3)
adjustOklchForDarkMode(oklch, role) ==
    LET l == CASE role = "background" -> Min2(oklch.l, 150)
               [] role = "foreground" -> Max2(oklch.l, 900)
               [] role = "border" -> Min2(Max2(fourTenthsOf(oklch.l), 200), 350)
               [] role = "muted"  -> Min2(Max2(halfOf(oklch.l), 250), 400)
    IN  OklchText(l, oklch.c, oklch.h, TRUE)

adjustBrandOklchForDarkMode(oklch) ==
    LET l == IF oklch.l < 300 THEN Min2(oklch.l + 200, 500)
             ELSE IF oklch.l > 800 THEN Max2(oklch.l - 150, 650)
             ELSE oklch.l
    IN  OklchText(l, oklch.c, oklch.h, TRUE)

\* the HSL branch of adjustColorForDarkMode: the adjusted lightness in
\* tenths of a percent
adjustedHslLightness(l, role) ==
    CASE role = "background" -> 10 * Min2(l, 15)
      [] role = "foreground" -> 10 * Max2(l, 85)
      [] role = "border" -> Min2(Max2(4 * l, 200), 350)
      [] role = "muted"  -> Min2(Max2(5 * l, 250), 400)

adjustColorForDarkMode(color, role, format) ==
    IF format = "oklch"
    THEN adjustOklchForDarkMode(colorToOklch(color), role)
    ELSE LET hsl == colorToHsl(color)
             adjustedColor == hslToHex(hsl.h, hsl.s, adjustedHslLightness(hsl.l, role))
         IN  convertColorToFormat(adjustedColor, format)

adjustBrandColorForDarkMode(color, format) ==
    IF format = "oklch"
    THEN adjustBrandOklchForDarkMode(colorToOklch(color))
    ELSE LET hsl == colorToHsl(color)
             l   == IF hsl.l < 30 THEN Min2(hsl.l + 20, 50)
                    ELSE IF hsl.l > 80 THEN Max2(hsl.l - 15, 65)
                    ELSE hsl.l
             adjustedColor == hslToHex(hsl.h, hsl.s, 10 * l)
         IN  convertColorToFormat(adjustedColor, format)

getDefaultColors(format) ==
    CASE format = "hsl" ->
           [white          |-> HslText(0, 0, 100),
            black          |-> HslText(0, 0, 0),
            darkGray       |-> HslText(240, 2, 14),
            lightGray      |-> HslText(210, 40, 96),
            mutedGray      |-> HslText(240, 6, 27),
            borderGray     |-> HslText(240, 6, 20),
            destructiveRed |-> HslText(0, 84, 60)]
      [] format = "oklch" ->
           [white          |-> OklchText(1000, 0, 0, FALSE),
            black          |-> OklchText(0, 0, 0, FALSE),
            darkGray       |-> OklchText(141, 5, 285823, TRUE),
            lightGray      |-> OklchText(967, 1, 286375, TRUE),
            mutedGray      |-> OklchText(274, 6, 286033, TRUE),
            borderGray     |-> OklchText(200, 4, 286320, FALSE),
            destructiveRed |-> OklchText(577, 245, 27325, TRUE)]
      [] format = "hex" ->
           [white          |-> Hex6(255, 255, 255),
            black          |-> Hex6(0, 0, 0),
            darkGray       |-> Hex6(20, 20, 20),
            lightGray      |-> Hex6(245, 245, 245),
            mutedGray      |-> Hex6(69, 69, 69),
            borderGray     |-> Hex6(51, 51, 51),
            destructiveRed |-> Hex6(220, 38, 38)]

getForegroundColor(backgroundColor, format, isLightTheme) ==
    LET defaults == getDefaultColors(format)
        bgHsl    == colorToHsl(backgroundColor)
    IN  IF isLightTheme
        THEN (IF bgHsl.l < 50 THEN defaults.white ELSE defaults.darkGray)
        ELSE (IF bgHsl.l < 60 THEN defaults.white ELSE defaults.darkGray)

-----------------------------------------------------------------------------
(* analyzeColors and assignRoles                                           *)

\* Math.log(n) * 10, in thousandths, for n = 1 .. 200
LogTimes10 ==
    <<     0,  6931, 10986, 13863, 16094, 17918, 19459, 20794,
       21972, 23026, 23979, 24849, 25649, 26391, 27081, 27726,
       28332, 28904, 29444, 29957, 30445, 30910, 31355, 31781,
       32189, 32581, 32958, 33322, 33673, 34012, 34340, 34657,
       34965, 35264, 35553, 35835, 36109, 36376, 36636, 36889,
       37136, 37377, 37612, 37842, 38067, 38286, 38501, 38712,
       38918, 39120, 39318, 39512, 39703, 39890, 40073, 40254,
       40431, 40604, 40775, 40943, 41109, 41271, 41431, 41589,
       41744, 41897, 42047, 42195, 42341, 42485, 42627, 42767,
       42905, 43041, 43175, 43307, 43438, 43567, 43694, 43820,
       43944, 44067, 44188, 44308, 44427, 44543, 44659, 44773,
       44886, 44998, 45109, 45218, 45326, 45433, 45539, 45643,
       45747, 45850, 45951, 46052, 46151, 46250, 46347, 46444,
       46540, 46634, 46728, 46821, 46913, 47005, 47095, 47185,
       47274, 47362, 47449, 47536, 47622, 47707, 47791, 47875,
       47958, 48040, 48122, 48203, 48283, 48363, 48442, 48520,
       48598, 48675, 48752, 48828, 48903, 48978, 49053, 49127,
       49200, 49273, 49345, 49416, 49488, 49558, 49628, 49698,
       49767, 49836, 49904, 49972, 50039, 50106, 50173, 50239,
       50304, 50370, 50434, 50499, 50562, 50626, 50689, 50752,
       50814, 50876, 50938, 50999, 51059, 51120, 51180, 51240,
       51299, 51358, 51417, 51475, 51533, 51591, 51648, 51705,
       51761, 51818, 51874, 51930, 51985, 52040, 52095, 52149,
       52204, 52257, 52311, 52364, 52417, 52470, 52523, 52575,
       52627, 52679, 52730, 52781, 52832, 52883, 52933, 52983 >>

\* mutant: nothing is dropped before grouping
isFilteredOutNothing(value) == FALSE

\* "Filter out common non-brand colors": the literals analyzeColors drops
\* before grouping
isFilteredOut(value) ==
    value \in {Hex3(255, 255, 255), Hex6(255, 255, 255),
               Hex3(0, 0, 0), Hex6(0, 0, 0)}

filteredColors(allColors) ==
    SelectSeq(allColors, LAMBDA c : ~isFilteredOut(c.value))

\* mutant: every filtered colour opens a group of its own
groupKeysNoDedupe(fc, acc) ==
    [i \in 1..Len(fc) |-> normalizeColorToHex(fc[i].value)]

\* keys of colorGroups in insertion order: a Map keeps the order in which
\* its keys were first set
RECURSIVE groupKeys(_, _)
groupKeys(fc, acc) ==
    IF fc = <<>> THEN acc
    ELSE LET k == normalizeColorToHex(Head(fc).value)
         IN  groupKeys(Tail(fc),
                       IF \E i \in 1..Len(acc) : acc[i] = k THEN acc
                       ELSE Append(acc, k))

\* mutant: the variants of one group sorted by frequency alone
sortedVariantsByCount(fc, k) ==
    LET vs    == SelectSeq(fc, LAMBDA c : normalizeColorToHex(c.value) = k)
        keyed == [i \in 1..Len(vs) |-> [key |-> vs[i].count, v |-> vs[i]]]
        srt   == SortDesc(keyed)
    IN  [i \in 1..Len(srt) |-> srt[i].v]

\* the variants of one group, sorted "solid colors first, then by frequency"
sortedVariants(fc, k) ==
    LET vs    == SelectSeq(fc, LAMBDA c : normalizeColorToHex(c.value) = k)
        keyed == [i \in 1..Len(vs) |->
                    [key |-> (IF hasOpacity(vs[i].value) THEN 0 ELSE 1000000)
                             + vs[i].count,
                     v   |-> vs[i]]]
        srt   == SortDesc(keyed)
    IN  [i \in 1..Len(srt) |-> srt[i].v]

\* the ColorAnalysis built for one group (its contrast field, a number no
\* role rule reads, is left out)
groupAnalysis(fc, k) ==
    LET variants       == sortedVariants(fc, k)
        bestVariant    == variants[1]
        totalFrequency == SumSeq([i \in 1..Len(variants) |-> variants[i].count])
        hsl            == colorToHsl(bestVariant.value)
    IN  [hex        |-> bestVariant.value,
         role       |-> "neutral",
         lightness  |-> hsl.l,
         saturation |-> hsl.s,
         hue        |-> hsl.h,
         frequency  |-> totalFrequency,
         sources    |-> {variants[i].source : i \in 1..Len(variants)},
         confidence |-> IF totalFrequency > 10 THEN 8 ELSE 5]

\* analyses before role assignment: one per group, sorted by frequency
groupedAnalyses(allColors) ==
    LET fc    == filteredColors(allColors)
        keys  == groupKeys(fc, <<>>)
        keyed == [i \in 1..Len(keys) |->
                    LET a == groupAnalysis(fc, keys[i])
                    IN  [key |-> a.frequency, a |-> a]]
        srt   == SortDesc(keyed)
    IN  [i \in 1..Len(srt) |-> srt[i].a]

\* semanticData?.find(s => s.color === analysis.hex): index of the first
\* signal of the colour, 0 when there is none
semanticIndex(sem, hex) ==
    IF \E i \in 1..Len(sem) : sem[i].color = hex
    THEN CHOOSE i \in 1..Len(sem) :
            sem[i].color = hex /\ \A j \in 1..(i - 1) : sem[j].color # hex
    ELSE 0

\* mutant: the first-seen bonus as 15 - 2 * firstSeenIndex with a floor of 0
semanticBonusFloorZero(s) ==
    100
    + Max2(0, 15 - s.firstSeenIndex * 2)
    + (IF s.domDepth <= 3 THEN 10 - s.domDepth * 2 ELSE 0)
    + (IF s.documentPosition < 30 THEN 8 ELSE 0)
    + (IF s.weight >= 90 THEN 25
       ELSE IF s.weight >= 80 THEN 15
       ELSE IF s.weight >= 70 THEN 10 ELSE 0)
    + (IF s.context = "header" /\ s.weight >= 90 THEN 20 ELSE 0)

\* the bonus of a colour that has a semantic signal
semanticBonus(s) ==
    100
    + (IF s.firstSeenIndex < 5 THEN 15 - s.firstSeenIndex * 2 ELSE 0)
    + (IF s.domDepth <= 3 THEN 10 - s.domDepth * 2 ELSE 0)
    + (IF s.documentPosition < 30 THEN 8 ELSE 0)
    + (IF s.weight >= 90 THEN 25
       ELSE IF s.weight >= 80 THEN 15
       ELSE IF s.weight >= 70 THEN 10 ELSE 0)
    + (IF s.context = "header" /\ s.weight >= 90 THEN 20 ELSE 0)

\* The contrast bonus: whiteContrast = 1.05 / (L + 0.05) exceeds 4.5 when the
\* luminance L is below 0.1833, blackContrast = (L + 0.05) / 0.05 exceeds 4.5
\* when L is above 0.175: one of the two holds for every luminance.
contrastBonus == 15

\* the brand relevance score of one analysis, in thousandths
brandScore(an, a, sem, fw) ==
    LET totalColors == SumSeq([i \in 1..Len(an) |-> an[i].frequency])
        si          == semanticIndex(sem, a.hex)
        points ==
            (IF a.saturation > 80 THEN 40
             ELSE IF a.saturation > 60 THEN 25
             ELSE IF a.saturation > 40 THEN 15
             ELSE IF a.saturation < 10 THEN -20 ELSE 0)
          + (IF a.lightness >= 25 /\ a.lightness <= 75 THEN 20
             ELSE IF a.lightness >= 15 /\ a.lightness <= 85 THEN 10
             ELSE IF a.lightness > 95 \/ a.lightness < 5 THEN -30 ELSE 0)
          + (IF isCommonWebColor(a.hex) THEN -25 ELSE 0)
          + (IF a.hex \in detectedFrameworkColors(fw) THEN -200
             ELSE IF isFrameworkColor(a.hex) THEN -150 ELSE 0)
          + (IF isBrowserDefaultColor(a.hex) THEN -100 ELSE 0)
          + contrastBonus
          + (IF 100 * a.frequency > totalColors /\ 10 * a.frequency < 3 * totalColors
             THEN 10
             ELSE IF 2 * a.frequency > totalColors THEN -15
             ELSE IF a.frequency = 1 /\ a.saturation > 80 THEN -5 ELSE 0)
          + (IF si # 0 THEN semanticBonus(sem[si]) ELSE -20)
    IN  LogTimes10[a.frequency + 1] + 1000 * points

\* The role rules of the assignment loop, in the order the loop tries them.
\* `assigned` is the set of single-slot roles already given out.
destructiveRule(a, score, assigned) ==
    /\ "destructive" \notin assigned
    /\ (a.hue >= 340 \/ a.hue <= 20)
    /\ a.saturation > 50
    /\ a.lightness > 25
    /\ a.lightness < 75

backgroundRule(a, score, assigned) ==
    /\ (a.lightness > 95 \/ a.lightness < 5)
    /\ a.frequency > 20

foregroundRule(a, score, assigned) ==
    /\ a.saturation < 15
    /\ (a.lightness > 90 \/ a.lightness < 15)
    /\ a.frequency > 30

\* mutant: the primary rule without its single-slot guard
primaryRuleNoSlot(a, score, assigned) ==
    /\ score > 30000
    /\ a.saturation > 30

primaryRule(a, score, assigned) ==
    /\ "primary" \notin assigned
    /\ score > 30000
    /\ a.saturation > 30

\* mutant: the secondary rule without its single-slot guard
secondaryRuleNoSlot(a, score, assigned) == score > 20000

secondaryRule(a, score, assigned) ==
    /\ "secondary" \notin assigned
    /\ score > 20000

accentRule(a, score, assigned) ==
    /\ "accent" \notin assigned
    /\ a.saturation > 60
    /\ a.frequency < 50
    /\ a.lightness > 20
    /\ a.lightness < 80

borderRule(a, score, assigned) ==
    /\ a.saturation < 25
    /\ a.lightness > 70
    /\ a.lightness < 95

mutedRule(a, score, assigned) == a.saturation < 30

\* variant: the loop body tries the primary rule before the destructive one
roleOfPrimaryFirst(a, score, assigned) ==
    IF primaryRule(a, score, assigned) THEN "primary"
    ELSE IF destructiveRule(a, score, assigned) THEN "destructive"
    ELSE IF backgroundRule(a, score, assigned) THEN "background"
    ELSE IF foregroundRule(a, score, assigned) THEN "foreground"
    ELSE IF secondaryRule(a, score, assigned) THEN "secondary"
    ELSE IF accentRule(a, score, assigned) THEN "accent"
    ELSE IF borderRule(a, score, assigned) THEN "border"
    ELSE IF mutedRule(a, score, assigned) THEN "muted"
    ELSE "neutral"

\* the role one pass of the loop body gives to an analysis
roleOf(a, score, assigned) ==
    IF destructiveRule(a, score, assigned) THEN "destructive"
    ELSE IF backgroundRule(a, score, assigned) THEN "background"
    ELSE IF foregroundRule(a, score, assigned) THEN "foreground"
    ELSE IF primaryRule(a, score, assigned) THEN "primary"
    ELSE IF secondaryRule(a, score, assigned) THEN "secondary"
    ELSE IF accentRule(a, score, assigned) THEN "accent"
    ELSE IF borderRule(a, score, assigned) THEN "border"
    ELSE IF mutedRule(a, score, assigned) THEN "muted"
    ELSE "neutral"

\* for (const { analysis, score } of brandScores): roles[i] is the role of
\* analyses[i]; the loop writes through the shared analysis objects
RECURSIVE assignLoop(_, _, _, _)
assignLoop(an, sorted, assigned, roles) ==
    IF sorted = <<>> THEN roles
    ELSE LET e == Head(sorted)
             r == roleOf(an[e.idx], e.key, assigned)
         IN  assignLoop(an, Tail(sorted),
                        IF r \in {"primary", "secondary", "accent", "destructive"}
                        THEN assigned \cup {r} ELSE assigned,
                        [roles EXCEPT ![e.idx] = r])

\* brandScores after brandScores.sort((a, b) => b.score - a.score)
sortedBrandScores(an, sem, fw) ==
    SortDesc([i \in 1..Len(an) |->
                [key |-> brandScore(an, an[i], sem, fw), idx |-> i]])

assignRoles(an, sem, fw) ==
    LET roles == assignLoop(an, sortedBrandScores(an, sem, fw), {},
                            [i \in 1..Len(an) |-> "neutral"])
    IN  [i \in 1..Len(an) |-> [an[i] EXCEPT !.role = roles[i]]]

\* allColors: the colours, then the variable colours counted by references
combineColors(cs, vcs) ==
    [i \in 1..Len(cs) |->
        [value |-> cs[i].value, count |-> cs[i].count, source |-> "css"]]
    \o
    [i \in 1..Len(vcs) |->
        [value |-> vcs[i].value, count |-> vcs[i].references, source |-> "variable"]]

analyzeColors(cs, vcs, sem, fw) ==
    assignRoles(groupedAnalyses(combineColors(cs, vcs)), sem, fw)

-----------------------------------------------------------------------------
(* generateShadcnTheme                                                     *)

\* '0.5rem'
radiusValue == [fmt |-> "length", text |-> "0.5rem"]

\* findColorsByRole: the hex of the entries holding the role, by confidence
\* (descending, stable)
findColorsByRole(an, role) ==
    LET held  == SelectSeq(an, LAMBDA c : c.role = role)
        keyed == [i \in 1..Len(held) |-> [key |-> held[i].confidence, a |-> held[i]]]
        srt   == SortDesc(keyed)
    IN  [i \in 1..Len(srt) |-> srt[i].a.hex]

\* an optional colour (a hex, or null/undefined) is a sequence of length <= 1
elementAt(list, i) == IF Len(list) >= i THEN <<list[i]>> ELSE <<>>

findBestColorByRole(an, role) == elementAt(findColorsByRole(an, role), 1)

\* the hex of the most saturated entry of a non-empty list
mostSaturated(list) ==
    LET keyed == [i \in 1..Len(list) |-> [key |-> list[i].saturation, a |-> list[i]]]
    IN  SortDesc(keyed)[1].a.hex

getSecondaryColor(an) ==
    LET secondaries == findColorsByRole(an, "secondary")
        accents     == findColorsByRole(an, "accent")
        muteds      == findColorsByRole(an, "muted")
        nonPrimary  == SelectSeq(an, LAMBDA c : c.role # "primary" /\ c.saturation > 30)
    IN  IF secondaries # <<>> THEN <<secondaries[1]>>
        ELSE IF accents # <<>> THEN <<accents[1]>>
        ELSE IF muteds # <<>> THEN <<muteds[1]>>
        ELSE IF nonPrimary # <<>> THEN <<mostSaturated(nonPrimary)>>
        ELSE <<>>

getAccentColor(an) ==
    LET secondaries    == findColorsByRole(an, "secondary")
        accents        == findColorsByRole(an, "accent")
        secondaryColor == getSecondaryColor(an)
        vibrantColors  ==
            SelectSeq(an, LAMBDA c : /\ c.role # "primary"
                                     /\ <<c.hex>> # secondaryColor
                                     /\ c.saturation > 60
                                     /\ c.lightness > 30
                                     /\ c.lightness < 80)
    IN  IF accents # <<>> THEN <<accents[1]>>
        ELSE IF Len(secondaries) >= 2 THEN <<secondaries[2]>>
        ELSE IF vibrantColors # <<>> THEN <<mostSaturated(vibrantColors)>>
        ELSE secondaryColor

\* setColorWithForeground: the two entries it writes
setColorWithForeground(baseKey, color, format, isLightTheme) ==
    (baseKey :> convertColorToFormat(color, format))
    @@ ((baseKey \o "-foreground") :> getForegroundColor(color, format, isLightTheme))

\* an object without entries
emptyTheme == [k \in {} |-> radiusValue]

lightThemeOf(an, format) ==
    LET defaults       == getDefaultColors(format)
        primaryColor   == findBestColorByRole(an, "primary")
        backgrounds    == findColorsByRole(an, "background")
        foregrounds    == findColorsByRole(an, "foreground")
        borders        == findColorsByRole(an, "border")
        muteds         == findColorsByRole(an, "muted")
        destructives   == findColorsByRole(an, "destructive")
        secondaryColor == getSecondaryColor(an)
        accentColor    == getAccentColor(an)
        bgColor        == IF backgrounds # <<>>
                          THEN convertColorToFormat(backgrounds[1], format)
                          ELSE defaults.white
        fgColor        == IF foregrounds # <<>>
                          THEN convertColorToFormat(foregrounds[1], format)
                          ELSE defaults.darkGray
        borderColor    == IF borders # <<>>
                          THEN convertColorToFormat(borders[1], format)
                          ELSE defaults.borderGray
    IN  ("--radius" :> radiusValue)
        @@ ("--background" :> bgColor) @@ ("--card" :> bgColor)
        @@ ("--popover" :> bgColor)
        @@ ("--foreground" :> fgColor) @@ ("--card-foreground" :> fgColor)
        @@ ("--popover-foreground" :> fgColor)
        @@ (IF primaryColor # <<>>
            THEN setColorWithForeground("--primary", stripOpacity(primaryColor[1]),
                                        format, TRUE)
                 @@ ("--ring" :> convertColorToFormat(stripOpacity(primaryColor[1]),
                                                      format))
            ELSE emptyTheme)
        @@ (IF secondaryColor # <<>>
            THEN setColorWithForeground("--secondary", stripOpacity(secondaryColor[1]),
                                        format, TRUE)
            ELSE ("--secondary" :> defaults.lightGray)
                 @@ ("--secondary-foreground" :> defaults.darkGray))
        @@ (IF accentColor # <<>>
            THEN setColorWithForeground("--accent", accentColor[1], format, TRUE)
            ELSE ("--accent" :> defaults.lightGray)
                 @@ ("--accent-foreground" :> defaults.darkGray))
        @@ (IF muteds # <<>>
            THEN ("--muted" :> convertColorToFormat(muteds[1], format))
                 @@ ("--muted-foreground" :>
                        IF colorToHsl(muteds[1]).l < 50 THEN defaults.white
                        ELSE defaults.mutedGray)
            ELSE ("--muted" :> defaults.lightGray)
                 @@ ("--muted-foreground" :> defaults.mutedGray))
        @@ (IF destructives # <<>>
            THEN setColorWithForeground("--destructive", destructives[1], format, TRUE)
            ELSE ("--destructive" :> defaults.destructiveRed)
                 @@ ("--destructive-foreground" :> defaults.white))
        @@ ("--border" :> borderColor) @@ ("--input" :> borderColor)

\* the fixed dark surfaces used when no entry holds role background
standardDarkBackground(format) ==
    CASE format = "hsl"   -> HslText(240, 9, 2)
      [] format = "oklch" -> OklchText(141, 5, 285823, TRUE)
      [] format = "hex"   -> Hex6(10, 10, 10)

standardDarkCard(format) ==
    CASE format = "hsl"   -> HslText(240, 6, 10)
      [] format = "oklch" -> OklchText(210, 6, 285885, FALSE)
      [] format = "hex"   -> Hex6(26, 26, 26)

darkThemeOf(an, format) ==
    LET defaults       == getDefaultColors(format)
        primaryColor   == findBestColorByRole(an, "primary")
        backgrounds    == findColorsByRole(an, "background")
        foregrounds    == findColorsByRole(an, "foreground")
        borders        == findColorsByRole(an, "border")
        muteds         == findColorsByRole(an, "muted")
        destructives   == findColorsByRole(an, "destructive")
        secondaryColor == getSecondaryColor(an)
        accentColor    == getAccentColor(an)
        darkFg         == IF foregrounds # <<>>
                          THEN adjustColorForDarkMode(foregrounds[1], "foreground", format)
                          ELSE defaults.white
    IN  ("--radius" :> radiusValue)
        @@ (IF backgrounds # <<>>
            THEN LET darkBg == adjustColorForDarkMode(backgrounds[1], "background", format)
                 IN  ("--background" :> darkBg) @@ ("--card" :> darkBg)
                     @@ ("--popover" :> darkBg)
            ELSE ("--background" :> standardDarkBackground(format))
                 @@ ("--card" :> standardDarkCard(format))
                 @@ ("--popover" :> standardDarkCard(format)))
        @@ ("--foreground" :> darkFg) @@ ("--card-foreground" :> darkFg)
        @@ ("--popover-foreground" :> darkFg)
        @@ (IF primaryColor # <<>>
            THEN LET adjustedPrimary == adjustBrandColorForDarkMode(primaryColor[1], format)
                 IN  ("--primary" :> adjustedPrimary) @@ ("--ring" :> adjustedPrimary)
                     @@ ("--primary-foreground" :>
                            getForegroundColor(primaryColor[1], format, FALSE))
            ELSE emptyTheme)
        @@ (IF secondaryColor # <<>>
            THEN ("--secondary" :> adjustBrandColorForDarkMode(secondaryColor[1], format))
                 @@ ("--secondary-foreground" :>
                        getForegroundColor(secondaryColor[1], format, FALSE))
            ELSE ("--secondary" :> defaults.mutedGray)
                 @@ ("--secondary-foreground" :> defaults.white))
        @@ (IF accentColor # <<>>
            THEN ("--accent" :> adjustBrandColorForDarkMode(accentColor[1], format))
                 @@ ("--accent-foreground" :>
                        getForegroundColor(accentColor[1], format, FALSE))
            ELSE ("--accent" :> defaults.mutedGray)
                 @@ ("--accent-foreground" :> defaults.white))
        @@ (IF destructives # <<>>
            THEN ("--destructive" :> adjustBrandColorForDarkMode(destructives[1], format))
                 @@ ("--destructive-foreground" :>
                        getForegroundColor(destructives[1], format, FALSE))
            ELSE ("--destructive" :> defaults.destructiveRed)
                 @@ ("--destructive-foreground" :> defaults.white))
        @@ (IF borders # <<>>
            THEN LET darkBorder == adjustColorForDarkMode(borders[1], "border", format)
                 IN  ("--border" :> darkBorder) @@ ("--input" :> darkBorder)
            ELSE ("--border" :> defaults.borderGray)
                 @@ ("--input" :> defaults.mutedGray))
        @@ (IF muteds # <<>>
            THEN ("--muted" :> adjustColorForDarkMode(muteds[1], "muted", format))
            ELSE ("--muted" :> defaults.mutedGray))
        @@ ("--muted-foreground" :> defaults.white)

\* variant: colour variation is taken for granted
hasColorVariationAlways(an) == TRUE

hasColorVariation(an) == \E i \in 1..Len(an) : an[i].saturation > 30

\* generateShadcnTheme: hasDark tells whether the result has a dark map
generateShadcnTheme(an, format) ==
    LET lightTheme == lightThemeOf(an, format)
        withDark   == hasColorVariation(an) /\ Cardinality(DOMAIN lightTheme) > 3
    IN  [light   |-> lightTheme,
         hasDark |-> withDark,
         dark    |-> IF withDark THEN darkThemeOf(an, format) ELSE emptyTheme]

-----------------------------------------------------------------------------
(* Multi-source analysis: detectSourceType, getSourceWeight, the merge     *)

\* A URL is its text together with what detectSourceType reads from it: the
\* marker substrings its lower-cased text contains, and whether it ends in
\* .com, .org or .net with an optional slash.
Url(text, contains, endsInTld) ==
    [text |-> text, contains |-> contains, endsInTld |-> endsInTld]

detectSourceType(url) ==
    IF url.contains \cap {"design.", "/design", "styleguide", "tokens"} # {}
    THEN "design-system"
    ELSE IF url.contains \cap {"docs", "documentation", "guide"} # {}
    THEN "documentation"
    ELSE IF url.contains \cap {"app.", "portal.", "dashboard"} # {}
    THEN "application"
    ELSE IF url.endsInTld THEN "marketing"
    ELSE "unknown"

baseWeights ==
    [type \in {"design-system", "documentation", "application", "marketing",
               "unknown"} |->
        CASE type = "design-system" -> 100
          [] type = "documentation" -> 80
          [] type = "application"   -> 60
          [] type = "marketing"     -> 40
          [] type = "unknown"       -> 20]

getSourceWeight(type, cssLength) ==
    LET cssBonus == IF cssLength > 50000 THEN 20
                    ELSE IF cssLength > 20000 THEN 10 ELSE 0
    IN  baseWeights[type] + cssBonus

\* frequencyArray as the token extractor builds it from value counts given
\* in descending order; prevalence, a percentage with two decimals, is kept
\* in hundredths
frequencyArray(counted) ==
    LET total == SumSeq([i \in 1..Len(counted) |-> counted[i].count])
    IN  [i \in 1..Len(counted) |->
            [value      |-> counted[i].value,
             count      |-> counted[i].count,
             prevalence |-> RoundDiv(counted[i].count * 10000, total)]]

\* sources.find(s => s.url === sourceUrl)?.weight || 1
sourceWeightOf(srcs, sourceUrl) ==
    IF \E i \in 1..Len(srcs) : srcs[i].url = sourceUrl
    THEN LET first == CHOOSE i \in 1..Len(srcs) :
                          /\ srcs[i].url = sourceUrl
                          /\ \A j \in 1..(i - 1) : srcs[j].url # sourceUrl
         IN  srcs[first].weight
    ELSE 1

\* position of the value in the valueMap (0 when it has no entry)
indexOfValue(valueMap, value) ==
    IF \E i \in 1..Len(valueMap) : valueMap[i].value = value
    THEN CHOOSE i \in 1..Len(valueMap) : valueMap[i].value = value
    ELSE 0

\* mutant: every source counted in full, whatever its weight
addItemUnweighted(valueMap, item, sourceUrl, sourceWeight) ==
    LET at == indexOfValue(valueMap, item.value)
    IN  IF at # 0
        THEN [valueMap EXCEPT
                 ![at].totalCount = @ + item.count * 100,
                 ![at].totalPrevalence = @ + item.prevalence * 100,
                 ![at].sources = Append(@, sourceUrl)]
        ELSE Append(valueMap,
                    [value           |-> item.value,
                     totalCount      |-> item.count * 100,
                     totalPrevalence |-> item.prevalence * 100,
                     sources         |-> <<sourceUrl>>])

\* one pass of the inner loop of mergeFrequencies; totalCount is kept in
\* hundredths and totalPrevalence in ten-thousandths
addItem(valueMap, item, sourceUrl, sourceWeight) ==
    LET at == indexOfValue(valueMap, item.value)
    IN  IF at # 0
        THEN [valueMap EXCEPT
                 ![at].totalCount = @ + item.count * sourceWeight,
                 ![at].totalPrevalence = @ + item.prevalence * sourceWeight,
                 ![at].sources = Append(@, sourceUrl)]
        ELSE Append(valueMap,
                    [value           |-> item.value,
                     totalCount      |-> item.count * sourceWeight,
                     totalPrevalence |-> item.prevalence * sourceWeight,
                     sources         |-> <<sourceUrl>>])

RECURSIVE addItems(_, _, _, _)
addItems(valueMap, freqArray, sourceUrl, sourceWeight) ==
    IF freqArray = <<>> THEN valueMap
    ELSE addItems(addItem(valueMap, Head(freqArray), sourceUrl, sourceWeight),
                  Tail(freqArray), sourceUrl, sourceWeight)

RECURSIVE aggregate(_, _, _)
aggregate(valueMap, sourceFreqs, srcs) ==
    IF sourceFreqs = <<>> THEN valueMap
    ELSE LET entry == Head(sourceFreqs)
         IN  aggregate(addItems(valueMap, entry.frequency, entry.url,
                                sourceWeightOf(srcs, entry.url)),
                       Tail(sourceFreqs), srcs)

\* mergeFrequencies: sourceFreqs is the list of [url, frequency] entries in
\* insertion order; the result is sorted by the rounded count
mergeFrequencies(sourceFreqs, srcs) ==
    LET valueMap == aggregate(<<>>, sourceFreqs, srcs)
        keyed    == [i \in 1..Len(valueMap) |->
                       LET count == RoundDiv(valueMap[i].totalCount, 100)
                       IN  [key |-> count,
                            a   |-> [value      |-> valueMap[i].value,
                                     count      |-> count,
                                     prevalence |->
                                         RoundDiv(valueMap[i].totalPrevalence,
                                                  100 * Len(valueMap[i].sources))]]]
        srt      == SortDesc(keyed)
    IN  [i \in 1..Len(srt) |-> srt[i].a]

indexOfProp(propMap, prop) ==
    IF \E i \in 1..Len(propMap) : propMap[i].prop = prop
    THEN CHOOSE i \in 1..Len(propMap) : propMap[i].prop = prop
    ELSE 0

\* one pass of the inner loop of mergeCustomProperties; references are kept
\* in hundredths: the first source's references enter unweighted
addProp(propMap, data, sourceWeight) ==
    LET at == indexOfProp(propMap, data.prop)
    IN  IF at # 0
        THEN [propMap EXCEPT
                 ![at].references = @ + data.references * sourceWeight,
                 ![at].value = IF sourceWeight > propMap[at].sourceWeight
                               THEN data.value ELSE @,
                 ![at].sourceWeight = IF sourceWeight > @ THEN sourceWeight ELSE @]
        ELSE Append(propMap,
                    [prop         |-> data.prop,
                     value        |-> data.value,
                     references   |-> data.references * 100,
                     sourceWeight |-> sourceWeight])

RECURSIVE addProps(_, _, _)
addProps(propMap, props, sourceWeight) ==
    IF props = <<>> THEN propMap
    ELSE addProps(addProp(propMap, Head(props), sourceWeight), Tail(props),
                  sourceWeight)

RECURSIVE aggregateProps(_, _, _)
aggregateProps(propMap, srcTokens, srcs) ==
    IF srcTokens = <<>> THEN propMap
    ELSE LET entry == Head(srcTokens)
         IN  aggregateProps(addProps(propMap, entry.tokens.customProperties,
                                     sourceWeightOf(srcs, entry.url)),
                            Tail(srcTokens), srcs)

mergeCustomProperties(srcTokens, srcs) ==
    LET propMap == aggregateProps(<<>>, srcTokens, srcs)
    IN  [i \in 1..Len(propMap) |->
            [prop       |-> propMap[i].prop,
             value      |-> propMap[i].value,
             references |-> propMap[i].references]]

\* mergeTokensFromSources; the token groups are all merged by the same
\* code, colors stands for each of them
mergeTokensFromSources(srcTokens, srcs) ==
    LET sourceFreqs == [i \in 1..Len(srcTokens) |->
                           [url       |-> srcTokens[i].url,
                            frequency |-> srcTokens[i].tokens.colors]]
        mergedFreq  == mergeFrequencies(sourceFreqs, srcs)
    IN  [customProperties |-> mergeCustomProperties(srcTokens, srcs),
         colors |-> [values    |-> [i \in 1..Len(mergedFreq) |-> mergedFreq[i].value],
                     frequency |-> mergedFreq]]

\* sourceTokens[url] = tokens: a new key goes last, an existing key keeps
\* its place
putSourceTokens(srcTokens, url, tokens) ==
    IF \E i \in 1..Len(srcTokens) : srcTokens[i].url = url
    THEN [i \in 1..Len(srcTokens) |->
            IF srcTokens[i].url = url THEN [url |-> url, tokens |-> tokens]
            ELSE srcTokens[i]]
    ELSE Append(srcTokens, [url |-> url, tokens |-> tokens])

-----------------------------------------------------------------------------
(* resolveVar                                                              *)

\* A value is a sequence of tokens: a literal character, or a reference
\* var(--name). The regular expression matches exactly the reference tokens.
Lit(c)    == [kind |-> "lit", name |-> c]
Ref(name) == [kind |-> "ref", name |-> name]

\* the length in characters of "var(--a)"
refLength == 8

charLength(token) == IF token.kind = "ref" THEN refLength ELSE 1

\* the character offset at which token i starts
startOf(result, i) == SumSeq([j \in 1..(i - 1) |-> charLength(result[j])])

\* varRegex.exec(result) with the regex's lastIndex: the index of the first
\* reference token that starts at or after lastIndex, 0 for null
execIndex(result, lastIndex) ==
    LET hits == {i \in 1..Len(result) :
                    result[i].kind = "ref" /\ startOf(result, i) >= lastIndex}
    IN  IF hits = {} THEN 0
        ELSE CHOOSE i \in hits : \A j \in hits : i <= j

\* result.replace(match[0], resolved): the first occurrence is replaced
replaceFirst(result, name, resolved) ==
    LET hits == {i \in 1..Len(result) : result[i] = Ref(name)}
    IN  IF hits = {} THEN result
        ELSE LET i == CHOOSE k \in hits : \A j \in hits : k <= j
             IN  SubSeq(result, 1, i - 1) \o resolved
                 \o SubSeq(result, i + 1, Len(result))

\* mutant: the seen-set never consulted
seenHasNothing(seen, varName) == FALSE

\* seen.has(varName)
seenHas(seen, varName) == varName \in seen

\* customProperties[varName], truthy: defined and not the empty string
hasReplacement(props, varName) ==
    varName \in DOMAIN props /\ props[varName] # <<>>

-----------------------------------------------------------------------------
(* Idle values of the variables an operation does not use                  *)

IdleRoles ==
    /\ colors = <<>>
    /\ variableColors = <<>>
    /\ semanticData = <<>>
    /\ frameworkAnalysis = {}
    /\ analyses = <<>>

IdleTheme ==
    /\ colorAnalyses = <<>>
    /\ colorFormat = "hsl"
    /\ theme = "none"

IdleDark ==
    /\ dmColor = Hex6(0, 0, 0)
    /\ dmRole = "background"
    /\ dmFormat = "hsl"
    /\ dmResult = "none"

IdleMulti ==
    /\ urls = <<>>
    /\ urlIdx = 0
    /\ sources = <<>>
    /\ sourceTokens = <<>>
    /\ mergedTokens = "none"

IdleResolve ==
    /\ customProperties = <<>>
    /\ rvStack = <<>>
    /\ rvSeen = {}
    /\ rvReturn = <<>>
    /\ rvSteps = 0

IdleApi ==
    /\ now = 0
    /\ apiKeys = <<>>
    /\ rateLimitStore = <<>>
    /\ requests = <<>>
    /\ apiHistory = <<>>

IdleFn ==
    /\ fnInput = <<>>
    /\ fnOutput = <<>>

\* all sequences over S of length at most n
SeqUpTo(S, n) == UNION {[1..k -> S] : k \in 0..n}

-----------------------------------------------------------------------------
(* Specification SpecRoles: one call of analyzeColors                      *)

MaxColors == 3

White     == Hex6(255, 255, 255)       \* #ffffff
Black     == Hex6(0, 0, 0)             \* #000000
BlackTint == Rgba(0, 0, 0, 1)          \* rgba(0,0,0,0.1)
Blue      == Hex6(26, 115, 232)        \* #1a73e8
BlueAlpha == Hex8(26, 115, 232, 128)   \* #1a73e880
Yellow    == Hex6(251, 188, 5)         \* #fbbc05
Red       == Hex6(255, 0, 0)           \* #ff0000
Coral     == Hex6(234, 67, 53)         \* #ea4335
PaleGray  == Hex6(232, 234, 237)       \* #e8eaed
Violet    == Hex6(139, 92, 246)        \* #8b5cf6, a Tailwind default

RolesPalette ==
    {White, Black, BlackTint, Blue, BlueAlpha, Yellow, Red, Coral, PaleGray,
     Violet}

\* counts on both sides of the frequency thresholds 20 and 30
RolesCounts == {2, 31}

ColorItems == [value : RolesPalette, count : RolesCounts]

\* the optional arguments: variable colours, semantic signals, detected frameworks
VariableChoices ==
    {<<>>, <<[value |-> Blue, references |-> 1]>>}

SemanticChoices ==
    {<<>>,
     <<[color |-> Yellow, firstSeenIndex |-> 0, domDepth |-> 2,
        documentPosition |-> 10, weight |-> 90, context |-> "header"]>>}

FrameworkChoices == {{}, {"tailwind"}}

MaxFirstSeenIndex == 8

\* a signal of the colour seen in a deep element far down the page, for
\* every first-seen index up to MaxFirstSeenIndex
EarlinessChoices ==
    {<<[color |-> Yellow, firstSeenIndex |-> i, domDepth |-> 6,
        documentPosition |-> 60, weight |-> 70, context |-> "form"]>> :
       i \in 0..MaxFirstSeenIndex}

\* the saturated colours of the palette, each used twice
BrandItems == [value : {Blue, Yellow, Red, Coral, Violet}, count : {2}]

\* Lists of MaxColors colours are analysed without the optional arguments,
\* shorter lists with every combination of them, lists one longer over
\* the saturated colours alone, and pairs of saturated colours with a
\* signal of every first-seen index.
InitRoles ==
    /\ pc = "start"
    /\ \/ /\ colors \in SeqUpTo(ColorItems, MaxColors)
          /\ variableColors = <<>>
          /\ semanticData = <<>>
          /\ frameworkAnalysis = {}
       \/ /\ colors \in [1..(MaxColors + 1) -> BrandItems]
          /\ variableColors = <<>>
          /\ semanticData = <<>>
          /\ frameworkAnalysis = {}
       \/ /\ colors \in SeqUpTo(ColorItems, MaxColors - 1)
          /\ variableColors \in VariableChoices
          /\ semanticData \in SemanticChoices
          /\ frameworkAnalysis \in FrameworkChoices
       \/ /\ colors \in [1..2 -> BrandItems]
          /\ variableColors = <<>>
          /\ semanticData \in EarlinessChoices
          /\ frameworkAnalysis = {}
    /\ analyses = <<>>
    /\ IdleTheme /\ IdleDark /\ IdleMulti /\ IdleResolve /\ IdleApi /\ IdleFn

AnalyzeColors ==
    /\ pc = "start"
    /\ analyses' = analyzeColors(colors, variableColors, semanticData, frameworkAnalysis)
    /\ pc' = "done"
    /\ UNCHANGED <<colors, variableColors, semanticData, frameworkAnalysis>>
    /\ UNCHANGED <<themeVars, darkVars, multiVars, resolveVars, apiVars, fnVars>>

NextRoles == AnalyzeColors

SpecRoles == InitRoles /\ [][NextRoles]_vars

AllRoles ==
    {"primary", "secondary", "accent", "destructive", "background",
     "foreground", "border", "muted", "neutral"}

\* indices of the returned analyses that hold role r
Holding(r) == {i \in 1..Len(analyses) : analyses[i].role = r}

\* the literals given to analyzeColors, variable colours included
InputValues ==
    {colors[i].value : i \in 1..Len(colors)}
    \cup {variableColors[i].value : i \in 1..Len(variableColors)}

\* C1: after analyzeColors returns, at most one analysis has role primary,
\* whatever the colours, the semantic signals and the detected frameworks.
C1_AtMostOnePrimary ==
    pc = "done" => Cardinality(Holding("primary")) <= 1

\* C1 witness: a finished run with a primary and a second colour that meets
\* the primary rule's saturation and score conditions but found the slot taken.
C1_Witness ==
    /\ pc = "done"
    /\ Cardinality(Holding("primary")) = 1
    /\ semanticData # <<>>
    /\ \E i \in 1..Len(analyses) :
          /\ analyses[i].role \in {"secondary", "accent"}
          /\ analyses[i].saturation > 30
          /\ brandScore(analyses, analyses[i], semanticData, frameworkAnalysis) > 30000

\* C9: after role assignment at most one analysis is secondary, at most one
\* accent, at most one destructive, and every analysis holds one of the nine
\* roles.
C9_SingleSlotRoles ==
    pc = "done" =>
        /\ Cardinality(Holding("secondary")) <= 1
        /\ Cardinality(Holding("accent")) <= 1
        /\ Cardinality(Holding("destructive")) <= 1
        /\ \A i \in 1..Len(analyses) : analyses[i].role \in AllRoles

\* C9 witness: destructive and secondary are both taken, a second colour of
\* the red band was denied destructive, and a colour that scores above the
\* secondary threshold was left with a later rule.
C9_Witness ==
    /\ pc = "done"
    /\ Cardinality(Holding("destructive")) = 1
    /\ Cardinality(Holding("secondary")) = 1
    /\ \E i \in 1..Len(analyses) :
          /\ analyses[i].role # "destructive"
          /\ destructiveRule(analyses[i], 0, {})
    /\ \E i \in 1..Len(analyses) :
          /\ analyses[i].role \in {"accent", "border", "muted", "neutral"}
          /\ brandScore(analyses, analyses[i], semanticData, frameworkAnalysis) > 20000

\* the literals analyzeColors drops before grouping, as the source lists them
DroppedLiterals ==
    {Hex3(255, 255, 255), Hex6(255, 255, 255), Hex3(0, 0, 0), Hex6(0, 0, 0)}

NoTwoShareNormalizedHex ==
    \A i, j \in 1..Len(analyses) :
        normalizeColorToHex(analyses[i].hex) = normalizeColorToHex(analyses[j].hex)
            => i = j

\* C3 as stated: the number of analyses equals the number of distinct
\* normalized hex values among the input colours, and no two analyses
\* normalize to the same hex.
C3_Original ==
    pc = "done" =>
        /\ Len(analyses) = Cardinality({normalizeColorToHex(v) : v \in InputValues})
        /\ NoTwoShareNormalizedHex

\* C3 amended: the number of analyses equals the number of distinct
\* normalized hex values among the input colours that the pre-filter keeps
\* (it drops #fff, #ffffff, #000 and #000000), so it is never more than the
\* number of distinct normalized hex values of the input; no two analyses
\* normalize to the same hex.
C3_GroupingInvariant ==
    pc = "done" =>
        /\ Len(analyses) =
              Cardinality({normalizeColorToHex(v) : v \in InputValues \ DroppedLiterals})
        /\ Len(analyses) <= Cardinality({normalizeColorToHex(v) : v \in InputValues})
        /\ NoTwoShareNormalizedHex

\* C3 witness: an input holding a dropped literal and two variants of one
\* normalized hex, which were merged into one analysis.
C3_Witness ==
    /\ pc = "done"
    /\ White \in InputValues
    /\ {Blue, BlueAlpha} \subseteq InputValues
    /\ Len(analyses) = Cardinality(InputValues) - 2

\* the scenario of C5: exactly #ffffff, #000000 and rgba(0,0,0,0.1), no
\* variable colours, no semantic data
C5_Scenario ==
    /\ pc = "done"
    /\ {colors[i].value : i \in 1..Len(colors)} = {White, Black, BlackTint}
    /\ variableColors = <<>>
    /\ semanticData = <<>>

NoBrandRole ==
    \A i \in 1..Len(analyses) :
        analyses[i].role \notin {"primary", "secondary", "accent"}

\* C5 as stated: in the scenario no analysis is primary, secondary or accent
\* and each of the three colours ends as background, foreground or neutral.
C5_Original ==
    C5_Scenario =>
        /\ NoBrandRole
        /\ \A c \in {White, Black, BlackTint} :
              \E i \in 1..Len(analyses) :
                  /\ analyses[i].hex = c
                  /\ analyses[i].role \in {"background", "foreground", "neutral"}

\* C5 amended: in the scenario no analysis is primary, secondary or accent;
\* #ffffff and #000000 are dropped by the pre-filter and get no analysis;
\* rgba(0,0,0,0.1) is the only analysis, with role background when its
\* count exceeds 20 and role muted otherwise.
C5_NeutralScenario ==
    C5_Scenario =>
        /\ NoBrandRole
        /\ Len(analyses) = 1
        /\ analyses[1].hex = BlackTint
        /\ analyses[1].role =
              IF analyses[1].frequency > 20 THEN "background" ELSE "muted"

\* C5 witness: the scenario with a count of rgba(0,0,0,0.1) of at most 20,
\* where it ends muted
C5_Witness ==
    /\ C5_Scenario
    /\ Len(colors) = 3
    /\ Len(analyses) = 1
    /\ analyses[1].role = "muted"

\* the composite score of the i-th returned analysis
ScoreOf(i) == brandScore(analyses, analyses[i], semanticData, frameworkAnalysis)

\* the j-th analysis is visited before the i-th: higher score first, and the
\* earlier of two equal scores first
VisitedBefore(j, i) ==
    \/ ScoreOf(j) > ScoreOf(i)
    \/ ScoreOf(j) = ScoreOf(i) /\ j < i

\* the single-slot roles given out before the i-th analysis is visited
TakenBefore(i) ==
    {r \in {"primary", "secondary", "accent", "destructive"} :
        \E j \in 1..Len(analyses) : VisitedBefore(j, i) /\ analyses[j].role = r}

RuleOrder ==
    <<"destructive", "background", "foreground", "primary", "secondary",
      "accent", "border", "muted">>

\* the condition of the k-th rule for the i-th analysis, slot included
RuleHolds(k, i) ==
    LET a == analyses[i]
        score == ScoreOf(i)
        assigned == TakenBefore(i)
    IN  CASE k = 1 -> destructiveRule(a, score, assigned)
          [] k = 2 -> backgroundRule(a, score, assigned)
          [] k = 3 -> foregroundRule(a, score, assigned)
          [] k = 4 -> primaryRule(a, score, assigned)
          [] k = 5 -> secondaryRule(a, score, assigned)
          [] k = 6 -> accentRule(a, score, assigned)
          [] k = 7 -> borderRule(a, score, assigned)
          [] k = 8 -> mutedRule(a, score, assigned)

\* C17: colours are visited in descending composite-score order and each
\* gets the role of the first rule, in the order destructive, background,
\* foreground, primary, secondary, accent, border, muted, whose condition it
\* satisfies with its slot still free; it gets neutral when no rule applies,
\* and never the role of a later rule.
C17_FirstRuleWins ==
    pc = "done" =>
        \A i \in 1..Len(analyses) :
            /\ \A k \in 1..Len(RuleOrder) :
                  analyses[i].role = RuleOrder[k] <=>
                      (RuleHolds(k, i) /\ \A q \in 1..(k - 1) : ~RuleHolds(q, i))
            /\ analyses[i].role = "neutral" <=>
                  \A k \in 1..Len(RuleOrder) : ~RuleHolds(k, i)

\* C17 witness: an analysis that satisfies both the destructive and the
\* primary rule, both slots free, holds destructive, while an analysis
\* visited after it holds primary.
C17_Witness ==
    /\ pc = "done"
    /\ \E i, j \in 1..Len(analyses) :
          /\ analyses[i].role = "destructive"
          /\ RuleHolds(1, i) /\ RuleHolds(4, i)
          /\ VisitedBefore(i, j)
          /\ analyses[j].role = "primary"

\* the same call with every variable colour passed as an ordinary colour
\* of the same count instead
PlainColors ==
    colors \o [i \in 1..Len(variableColors) |->
                 [value |-> variableColors[i].value,
                  count |-> variableColors[i].references]]

PlainAnalyses ==
    analyzeColors(PlainColors, <<>>, semanticData, frameworkAnalysis)

\* C18: in the scoring of the role assignment, a colour defined via a CSS
\* custom property gets a composite score exactly 75 higher than the same
\* colour with the same frequency and signals not defined via a custom
\* property (scores are in thousandths).
C18_VariableBonus ==
    pc = "done" =>
        \A i \in 1..Len(analyses) :
            "variable" \in analyses[i].sources =>
                ScoreOf(i) =
                    brandScore(PlainAnalyses, PlainAnalyses[i], semanticData,
                               frameworkAnalysis) + 75000

\* groupSimilarColors: the bin of a colour of the given hue, saturation and
\* lightness
groupKey(h, s, l) ==
    IF s < 10 THEN <<"gray", (l \div 20) * 20>>
    ELSE IF (h < 30 \/ h > 330) /\ s > 50 THEN <<"red-brand">>
    ELSE <<"hue", (h \div 30) * 30,
           IF s > 70 THEN "high" ELSE IF s > 30 THEN "med" ELSE "low">>

BinOf(i) ==
    groupKey(analyses[i].hue, analyses[i].saturation, analyses[i].lightness)

\* C19: colours of one bin (same 30-degree hue window and saturation tier,
\* or same lightness band when near-grayscale) are collapsed before
\* classification, so no two classified entries fall in the same bin.
C19_OneEntryPerBin ==
    pc = "done" =>
        \A i, j \in 1..Len(analyses) : BinOf(i) = BinOf(j) => i = j

\* the input colours, variable colours included, that share the normalized
\* hex of the i-th analysis
SameHexInputs(i) ==
    SelectSeq(combineColors(colors, variableColors),
              LAMBDA c : normalizeColorToHex(c.value)
                            = normalizeColorToHex(analyses[i].hex))

KeptInputs(inputs) == SelectSeq(inputs, LAMBDA c : c.value \notin DroppedLiterals)

\* the i-th analysis stands for the variants: its frequency is the sum of
\* their counts and its hex is a variant of the highest count among those
\* without opacity, or among all of them when every variant has opacity
RepresentsVariants(i, variants) ==
    LET solid == SelectSeq(variants, LAMBDA c : c.value.fmt \notin {"rgba", "hex8"})
        pool  == IF solid # <<>> THEN solid ELSE variants
    IN  /\ analyses[i].frequency = SumSeq([j \in 1..Len(variants) |-> variants[j].count])
        /\ \E j \in 1..Len(pool) :
              /\ pool[j].value = analyses[i].hex
              /\ \A m \in 1..Len(pool) : pool[m].count <= pool[j].count

\* C22 as stated: every analysis stands for all the input variants that
\* share its normalized hex: its hex is the variant without opacity of the
\* highest count and its frequency is the sum of the counts of all of them.
C22_Original ==
    pc = "done" => \A i \in 1..Len(analyses) : RepresentsVariants(i, SameHexInputs(i))

\* C22 amended: the groups are formed from the input colours the pre-filter
\* keeps (#fff, #ffffff, #000 and #000000 are dropped first and are no
\* variants of any group).  Every kept colour belongs to the group of one
\* analysis; the hex of the analysis is the variant without opacity of the
\* highest count, or the variant of the highest count when every variant of
\* the group has opacity, and its frequency is the sum of the counts of the
\* variants of the group.
C22_RepresentativeOfKeptVariants ==
    pc = "done" =>
        /\ \A i \in 1..Len(analyses) :
              RepresentsVariants(i, KeptInputs(SameHexInputs(i)))
        /\ \A v \in InputValues \ DroppedLiterals :
              \E i \in 1..Len(analyses) :
                 normalizeColorToHex(analyses[i].hex) = normalizeColorToHex(v)

\* C22 witness: #1a73e8 used twice and #1a73e880 used 31 times were merged
\* into one analysis with hex #1a73e8 and frequency 33.
C22_Witness ==
    /\ pc = "done"
    /\ \E m, n \in 1..Len(colors) :
          /\ colors[m] = [value |-> Blue, count |-> 2]
          /\ colors[n] = [value |-> BlueAlpha, count |-> 31]
    /\ \E i \in 1..Len(analyses) :
          /\ analyses[i].hex = Blue
          /\ analyses[i].frequency >= 33
          /\ Len(SameHexInputs(i)) >= 2

\* the signal semanticData holds for the i-th analysis (the lists analysed
\* hold at most one signal)
HasSignal(i) == semanticData # <<>> /\ semanticData[1].color = analyses[i].hex

\* the part of the score of the i-th analysis that is due to the first-seen
\* index of its signal, in thousandths: the score less the score the same
\* analysis gets when the signal is first seen late
EarlinessBonus(i) ==
    ScoreOf(i)
    - brandScore(analyses, analyses[i],
                 <<[semanticData[1] EXCEPT !.firstSeenIndex = 100]>>,
                 frameworkAnalysis)

\* C23 as stated: a colour whose signal has firstSeenIndex i gets the
\* earliness bonus max(0, 15 - 2 * i), for every i >= 0.
C23_Original ==
    pc = "done" =>
        \A i \in 1..Len(analyses) :
            HasSignal(i) =>
                EarlinessBonus(i) =
                    1000 * Max2(0, 15 - 2 * semanticData[1].firstSeenIndex)

\* C23 amended: the earliness bonus is 15 - 2 * i for a firstSeenIndex i
\* below 5 (15, 13, 11, 9, 7) and 0 for every i from 5 on.
C23_EarlinessBonusFirstFive ==
    pc = "done" =>
        \A i \in 1..Len(analyses) :
            HasSignal(i) =>
                EarlinessBonus(i) =
                    IF semanticData[1].firstSeenIndex < 5
                    THEN 1000 * (15 - 2 * semanticData[1].firstSeenIndex)
                    ELSE 0

\* C23 witness: a colour whose signal was first seen at index 5 was scored
\* with no earliness bonus.
C23_Witness ==
    /\ pc = "done"
    /\ \E i \in 1..Len(analyses) :
          /\ HasSignal(i)
          /\ semanticData[1].firstSeenIndex = 5
          /\ EarlinessBonus(i) = 0

-----------------------------------------------------------------------------
(* Specification SpecDark: one call of adjustColorForDarkMode              *)

ChannelLevels == {0, 64, 128, 191, 255}

DarkPalette ==
    {Hex6(r, g, b) : r \in ChannelLevels, g \in ChannelLevels, b \in ChannelLevels}
    \cup {Blue, Yellow, Coral, PaleGray, Violet, BlackTint}

NeutralRoles == {"background", "foreground", "border", "muted"}

Formats == {"hsl", "oklch", "hex"}

InitDark ==
    /\ pc = "start"
    /\ dmColor \in DarkPalette
    /\ dmRole \in NeutralRoles
    /\ dmFormat \in Formats
    /\ dmResult = "none"
    /\ IdleRoles /\ IdleTheme /\ IdleMulti /\ IdleResolve /\ IdleApi /\ IdleFn

AdjustColorForDarkMode ==
    /\ pc = "start"
    /\ dmResult' = adjustColorForDarkMode(dmColor, dmRole, dmFormat)
    /\ pc' = "done"
    /\ UNCHANGED <<dmColor, dmRole, dmFormat>>
    /\ UNCHANGED <<rolesVars, themeVars, multiVars, resolveVars, apiVars, fnVars>>

NextDark == AdjustColorForDarkMode

SpecDark == InitDark /\ [][NextDark]_vars

\* the lightness of a formatted value in tenths of a percent: the third
\* number of an HSL text, the first of an OKLCH text, the HSL lightness of a
\* hex colour
LightnessOf(v) ==
    CASE v.fmt = "hsltext" -> 10 * v.l
      [] v.fmt = "oklch"   -> v.l
      [] OTHER             -> 10 * colorToHsl(v).l

\* C8: for every input colour and every encoding the dark-mode adjustment of
\* a neutral role yields lightness <= 15% for background, >= 90% for
\* foreground, within [20%, 35%] for border and within [25%, 40%] for muted.
C8_DarkModeBands ==
    pc = "done" =>
        LET l == LightnessOf(dmResult)
        IN  CASE dmRole = "background" -> l <= 150
              [] dmRole = "foreground" -> l >= 900
              [] dmRole = "border"     -> l >= 200 /\ l <= 350
              [] dmRole = "muted"      -> l >= 250 /\ l <= 400

-----------------------------------------------------------------------------
(* Specification SpecTheme: one call of generateShadcnTheme                *)

MaxAnalyses == 2

ThemePalette == {Blue, PaleGray, Coral}

Confidences == {5, 8}

\* a ColorAnalysis entry of the colour, as analyzeColors builds it, holding
\* any of the nine roles
ThemeEntry(color, role, confidence) ==
    LET hsl == colorToHsl(color)
    IN  [hex        |-> color,
         role       |-> role,
         lightness  |-> hsl.l,
         saturation |-> hsl.s,
         hue        |-> hsl.h,
         frequency  |-> IF confidence = 8 THEN 31 ELSE 2,
         sources    |-> {"css"},
         confidence |-> confidence]

ThemeEntries ==
    {ThemeEntry(c, r, k) : c \in ThemePalette, r \in AllRoles, k \in Confidences}

InitTheme ==
    /\ pc = "start"
    /\ colorAnalyses \in SeqUpTo(ThemeEntries, MaxAnalyses)
    /\ colorFormat \in Formats
    /\ theme = "none"
    /\ IdleRoles /\ IdleDark /\ IdleMulti /\ IdleResolve /\ IdleApi /\ IdleFn

GenerateShadcnTheme ==
    /\ pc = "start"
    /\ theme' = generateShadcnTheme(colorAnalyses, colorFormat)
    /\ pc' = "done"
    /\ UNCHANGED <<colorAnalyses, colorFormat>>
    /\ UNCHANGED <<rolesVars, darkVars, multiVars, resolveVars, apiVars, fnVars>>

NextTheme == GenerateShadcnTheme

SpecTheme == InitTheme /\ [][NextTheme]_vars

BaseVariables ==
    {"--primary", "--secondary", "--accent", "--destructive", "--background",
     "--foreground", "--border", "--muted"}

\* C2: for every ColorAnalysis list (the empty list and lists without a
\* primary entry included) and every encoding, the light map returned by
\* generateShadcnTheme has a value for each of the eight base role variables.
C2_LightMapComplete ==
    pc = "done" => BaseVariables \subseteq DOMAIN theme.light

BaseRoles ==
    {"primary", "secondary", "accent", "destructive", "background",
     "foreground", "border", "muted"}

\* the values of getDefaultColors for the encoding
DefaultValues(format) ==
    LET defaults == getDefaultColors(format)
    IN  {defaults[k] : k \in DOMAIN defaults}

NoEntryHolds(role) ==
    \A i \in 1..Len(colorAnalyses) : colorAnalyses[i].role # role

\* C6: whenever no ColorAnalysis entry holds a role, the light-theme variable
\* of that role is present and is a getDefaultColors value of the requested
\* encoding: it is neither left unset nor filled from another entry.
C6_MissingRoleGetsDefault ==
    pc = "done" =>
        \A role \in BaseRoles :
            NoEntryHolds(role) =>
                /\ ("--" \o role) \in DOMAIN theme.light
                /\ theme.light["--" \o role] \in DefaultValues(colorFormat)

SomeSaturated ==
    \E i \in 1..Len(colorAnalyses) : colorAnalyses[i].saturation > 30

\* C15: generateShadcnTheme returns a dark map if and only if at least one
\* ColorAnalysis entry has saturation > 30; a list whose entries all have
\* saturation <= 30 yields a result without a dark map.
C15_DarkIffSaturated ==
    pc = "done" => (theme.hasDark <=> SomeSaturated)

\* C15 witness: a non-empty list of entries of saturation <= 30 has been
\* turned into a theme, and the theme has no dark map.
C15_Witness ==
    /\ pc = "done"
    /\ Len(colorAnalyses) > 0
    /\ ~SomeSaturated
    /\ ~theme.hasDark

-----------------------------------------------------------------------------
(* Specification SpecMulti: one call of analyzeMultipleSources             *)

MaxUrls == 2

DesignUrl    == Url("https://design.acme.com", {"design."}, TRUE)
DocsUrl      == Url("https://docs.acme.com/guide", {"docs", "guide"}, FALSE)
AppUrl       == Url("https://app.acme.com/login", {"app."}, FALSE)
MarketingUrl == Url("https://acme.com/", {}, TRUE)
UnknownUrl   == Url("https://acme.io/pricing", {}, FALSE)

UrlPool == {DesignUrl, DocsUrl, AppUrl, MarketingUrl, UnknownUrl}

Counted(value, count) == [value |-> value, count |-> count]

CustomProp(prop, value, references) ==
    [prop |-> prop, value |-> value, references |-> references]

\* what one source can yield: the length of its CSS and the tokens
\* extracted from it
Extraction(cssLength, counted, props) ==
    [cssLength |-> cssLength,
     tokens    |-> [customProperties |-> props, colors |-> frequencyArray(counted)]]

Extractions ==
    {Extraction(10000, <<Counted("#ff0000", 10)>>, <<>>),
     Extraction(10000, <<Counted("#ff0000", 1)>>, <<>>),
     Extraction(30000, <<Counted("#ff0000", 5)>>,
                <<CustomProp("--brand", "#ff0000", 2)>>),
     Extraction(60000, <<Counted("#ff0000", 4), Counted("#00ff00", 1)>>,
                <<CustomProp("--brand", "#0000ff", 1)>>),
     Extraction(10000, <<Counted("#00ff00", 3), Counted("#ff0000", 1)>>, <<>>),
     Extraction(10000, <<>>, <<>>)}

InitMulti ==
    /\ pc = "loop"
    /\ urls \in SeqUpTo(UrlPool, MaxUrls)
    /\ urlIdx = 0
    /\ sources = <<>>
    /\ sourceTokens = <<>>
    /\ mergedTokens = "none"
    /\ IdleRoles /\ IdleTheme /\ IdleDark /\ IdleResolve /\ IdleApi /\ IdleFn

\* one pass of the loop whose try block completes
ExtractSource ==
    /\ pc = "loop"
    /\ urlIdx < Len(urls)
    /\ \E x \in Extractions :
           LET url        == urls[urlIdx + 1]
               sourceType == detectSourceType(url)
               weight     == getSourceWeight(sourceType, x.cssLength)
           IN  /\ sources' = Append(sources, [url       |-> url.text,
                                              type      |-> sourceType,
                                              weight    |-> weight,
                                              cssLength |-> x.cssLength])
               /\ sourceTokens' = putSourceTokens(sourceTokens, url.text, x.tokens)
    /\ urlIdx' = urlIdx + 1
    /\ UNCHANGED <<pc, urls, mergedTokens>>
    /\ UNCHANGED <<rolesVars, themeVars, darkVars, resolveVars, apiVars, fnVars>>

\* one pass of the loop in which fetchHtml or extractAllCss throws: the
\* catch block only warns
ExtractFails ==
    /\ pc = "loop"
    /\ urlIdx < Len(urls)
    /\ urlIdx' = urlIdx + 1
    /\ UNCHANGED <<pc, urls, sources, sourceTokens, mergedTokens>>
    /\ UNCHANGED <<rolesVars, themeVars, darkVars, resolveVars, apiVars, fnVars>>

\* mutant: the merge not waiting for the loop to end
MergeBeforeLoopEnds ==
    /\ pc = "loop"
    /\ mergedTokens' = mergeTokensFromSources(sourceTokens, sources)
    /\ pc' = "done"
    /\ UNCHANGED <<urls, urlIdx, sources, sourceTokens>>
    /\ UNCHANGED <<rolesVars, themeVars, darkVars, resolveVars, apiVars, fnVars>>

\* the statements after the loop
MergeTokens ==
    /\ pc = "loop"
    /\ urlIdx = Len(urls)
    /\ mergedTokens' = mergeTokensFromSources(sourceTokens, sources)
    /\ pc' = "done"
    /\ UNCHANGED <<urls, urlIdx, sources, sourceTokens>>
    /\ UNCHANGED <<rolesVars, themeVars, darkVars, resolveVars, apiVars, fnVars>>

NextMulti == ExtractSource \/ ExtractFails \/ MergeTokens

SpecMulti == InitMulti /\ [][NextMulti]_vars

\* the weight recorded for a source URL
WeightOf(sourceUrl) ==
    sources[CHOOSE i \in 1..Len(sources) :
                /\ sources[i].url = sourceUrl
                /\ \A j \in 1..(i - 1) : sources[j].url # sourceUrl].weight

\* count * weight, summed over the sources whose token set has the value:
\* a hundred times the weighted sum of the counts
WeightedCountTimes100(value) ==
    SumSeq([i \in 1..Len(sourceTokens) |->
              LET freq == sourceTokens[i].tokens.colors
              IN  SumSeq([j \in 1..Len(freq) |->
                            IF freq[j].value = value
                            THEN freq[j].count * WeightOf(sourceTokens[i].url)
                            ELSE 0])])

MergedFrequency == mergedTokens.colors.frequency

SourceValues ==
    UNION {{sourceTokens[i].tokens.colors[j].value :
               j \in 1..Len(sourceTokens[i].tokens.colors)} :
           i \in 1..Len(sourceTokens)}

MergedCountOf(value) ==
    MergedFrequency[CHOOSE k \in 1..Len(MergedFrequency) :
                        MergedFrequency[k].value = value].count

\* C4 as stated: the merged count of every value is exactly the weighted sum
\* of its counts, count * (weight / 100) summed over the sources having it.
C4_Original ==
    pc = "done" =>
        \A k \in 1..Len(MergedFrequency) :
            100 * MergedFrequency[k].count
                = WeightedCountTimes100(MergedFrequency[k].value)

\* two sources of weight 100 and 40, each with #ff0000 at count 10
TenAndTen ==
    /\ Len(sources) = 2 /\ Len(sourceTokens) = 2
    /\ sources[1].weight = 100 /\ sources[2].weight = 40
    /\ \A i \in 1..2 :
           \E j \in 1..Len(sourceTokens[i].tokens.colors) :
               /\ sourceTokens[i].tokens.colors[j].value = "#ff0000"
               /\ sourceTokens[i].tokens.colors[j].count = 10

\* C4 (amended): the merged count of every value is the weighted sum of its
\* counts, count * (weight / 100) over the sources having the value, rounded
\* to the nearest integer; count 10 at weight 100 and count 10 at weight 40
\* merge to 14, not 20.
C4_RoundedWeightedSum ==
    pc = "done" =>
        /\ {MergedFrequency[k].value : k \in 1..Len(MergedFrequency)} = SourceValues
        /\ \A k \in 1..Len(MergedFrequency) :
               MergedFrequency[k].count
                   = RoundDiv(WeightedCountTimes100(MergedFrequency[k].value), 100)
        /\ TenAndTen => MergedCountOf("#ff0000") = 14

\* the 10/10 scenario has been merged
C4_Witness ==
    /\ pc = "done"
    /\ TenAndTen
    /\ MergedCountOf("#ff0000") = 14

RequestedUrls == {urls[i].text : i \in 1..Len(urls)}

MergedFromUrls == {sourceTokens[i].url : i \in 1..Len(sourceTokens)}

\* C10 as stated: the merge starts only after extraction has finished for
\* every requested URL, and the merged result is computed from the token
\* sets of all requested URLs, never from a subset of them.
C10_Original ==
    /\ pc = "loop" => mergedTokens = "none"
    /\ pc = "done" =>
           /\ urlIdx = Len(urls)
           /\ MergedFromUrls = RequestedUrls

\* C10 (amended): the merge starts only after the extraction of every
\* requested URL has been attempted, and the merged result is computed from
\* the token sets of all the URLs whose extraction succeeded (a URL whose
\* extraction failed is skipped).
C10_MergeAfterAllAttempts ==
    /\ pc = "loop" => mergedTokens = "none"
    /\ pc = "done" =>
           /\ urlIdx = Len(urls)
           /\ MergedFromUrls = {sources[i].url : i \in 1..Len(sources)}
           /\ MergedFromUrls \subseteq RequestedUrls
           /\ Len(sources) <= Len(urls)
           /\ mergedTokens = mergeTokensFromSources(sourceTokens, sources)
           /\ {MergedFrequency[k].value : k \in 1..Len(MergedFrequency)}
                  = SourceValues

\* a merge of two requested URLs of which one failed and one succeeded
C10_Witness ==
    /\ pc = "done"
    /\ Len(urls) = 2
    /\ urls[1] # urls[2]
    /\ Len(sources) = 1
    /\ MergedFromUrls # RequestedUrls
    /\ Len(MergedFrequency) > 0

Reverse(s) == [i \in 1..Len(s) |-> s[Len(s) + 1 - i]]

\* the tokens merged from the same sources listed in the opposite order
MergedFromReversed == mergeTokensFromSources(Reverse(sourceTokens), Reverse(sources))

\* every value has the same merged count in both token sets
SameCounts(m1, m2) ==
    /\ {f.value : f \in {m1.colors.frequency[i] : i \in 1..Len(m1.colors.frequency)}}
         = {f.value : f \in {m2.colors.frequency[i] : i \in 1..Len(m2.colors.frequency)}}
    /\ \A i \in 1..Len(m1.colors.frequency), j \in 1..Len(m2.colors.frequency) :
          m1.colors.frequency[i].value = m2.colors.frequency[j].value
             => m1.colors.frequency[i].count = m2.colors.frequency[j].count

\* every custom property has the same value and the same reference count in
\* both token sets
SameCustomProperties(m1, m2) ==
    {m1.customProperties[i] : i \in 1..Len(m1.customProperties)}
      = {m2.customProperties[i] : i \in 1..Len(m2.customProperties)}

DistinctSources ==
    \A i, j \in 1..Len(sources) : sources[i].url = sources[j].url => i = j

\* C30: the merged token set does not depend on the order in which the
\* sources are listed: with the same sources in the opposite order every value
\* gets the same merged count and every custom property the same merged value
\* and the same merged reference count.
C30_OrderIndependent ==
    (pc = "done" /\ DistinctSources) =>
        /\ SameCounts(mergedTokens, MergedFromReversed)
        /\ SameCustomProperties(mergedTokens, MergedFromReversed)

-----------------------------------------------------------------------------
(* Specification SpecResolve: one top-level call of resolveVar             *)

MaxLen == 2

\* frames the call stack can hold before a RangeError
MaxDepth == 4

VarNames == {"--a", "--b"}

Tokens == {Lit("x")} \cup {Ref(n) : n \in VarNames}

Values == SeqUpTo(Tokens, MaxLen)

\* the custom-property maps: --a has any value, --b a value of at most one
\* token; either may be undefined
PropertyMaps ==
    {m \in UNION {[D -> Values] : D \in SUBSET VarNames} :
        "--b" \in DOMAIN m => Len(m["--b"]) <= 1}

NewFrame(value) == [result |-> value, lastIndex |-> 0, pending |-> ""]

InitResolve ==
    /\ pc = "run"
    /\ customProperties \in PropertyMaps
    /\ \E value \in Values : rvStack = <<NewFrame(value)>>
    /\ rvSeen = {}
    /\ rvReturn = <<>>
    /\ rvSteps = 0
    /\ IdleRoles /\ IdleTheme /\ IdleDark /\ IdleMulti /\ IdleApi /\ IdleFn

TopFrame == rvStack[Len(rvStack)]

MatchIndex == execIndex(TopFrame.result, TopFrame.lastIndex)

MatchName == TopFrame.result[MatchIndex].name

\* return result: to the caller, which replaces its match, or to the outside
ReturnResult ==
    IF Len(rvStack) = 1
    THEN /\ rvReturn' = TopFrame.result
         /\ rvStack' = <<>>
         /\ pc' = "done"
    ELSE LET caller == rvStack[Len(rvStack) - 1]
         IN  /\ rvStack' =
                    [SubSeq(rvStack, 1, Len(rvStack) - 1)
                        EXCEPT ![Len(rvStack) - 1] =
                            [caller EXCEPT
                                !.result = replaceFirst(caller.result, caller.pending,
                                                        TopFrame.result),
                                !.pending = ""]]
             /\ UNCHANGED <<pc, rvReturn>>

\* exec returns null: the loop ends
NoMoreMatches ==
    /\ pc = "run"
    /\ MatchIndex = 0
    /\ ReturnResult
    /\ UNCHANGED <<customProperties, rvSeen, rvSteps>>
    /\ UNCHANGED <<rolesVars, themeVars, darkVars, multiVars, apiVars, fnVars>>

\* if (seen.has(varName)) break
BreakOnSeen ==
    /\ pc = "run"
    /\ MatchIndex # 0
    /\ seenHas(rvSeen, MatchName)
    /\ ReturnResult
    /\ rvSteps' = rvSteps + 1
    /\ UNCHANGED <<customProperties, rvSeen>>
    /\ UNCHANGED <<rolesVars, themeVars, darkVars, multiVars, apiVars, fnVars>>

\* a new name without a replacement: the loop goes on behind the match
SkipUnresolved ==
    /\ pc = "run"
    /\ MatchIndex # 0
    /\ ~seenHas(rvSeen, MatchName)
    /\ ~hasReplacement(customProperties, MatchName)
    /\ rvSeen' = rvSeen \cup {MatchName}
    /\ rvStack' = [rvStack EXCEPT ![Len(rvStack)].lastIndex =
                       startOf(TopFrame.result, MatchIndex) + refLength]
    /\ rvSteps' = rvSteps + 1
    /\ UNCHANGED <<pc, customProperties, rvReturn>>
    /\ UNCHANGED <<rolesVars, themeVars, darkVars, multiVars, apiVars, fnVars>>

\* a new name with a replacement: the recursive call
CallResolveVar ==
    /\ pc = "run"
    /\ MatchIndex # 0
    /\ ~seenHas(rvSeen, MatchName)
    /\ hasReplacement(customProperties, MatchName)
    /\ rvSeen' = rvSeen \cup {MatchName}
    /\ rvSteps' = rvSteps + 1
    /\ IF Len(rvStack) >= MaxDepth
       THEN /\ pc' = "overflow"
            /\ UNCHANGED rvStack
       ELSE /\ rvStack' =
                   Append([rvStack EXCEPT
                              ![Len(rvStack)].lastIndex =
                                  startOf(TopFrame.result, MatchIndex) + refLength,
                              ![Len(rvStack)].pending = MatchName],
                          NewFrame(customProperties[MatchName]))
            /\ UNCHANGED pc
    /\ UNCHANGED <<customProperties, rvReturn>>
    /\ UNCHANGED <<rolesVars, themeVars, darkVars, multiVars, apiVars, fnVars>>

NextResolve == NoMoreMatches \/ BreakOnSeen \/ SkipUnresolved \/ CallResolveVar

SpecResolve == InitResolve /\ [][NextResolve]_vars

\* synchronous code runs to its end: a step that can be taken is taken
SpecResolveLive == SpecResolve /\ WF_vars(NextResolve)

\* C7: resolveVar terminates for every value and every finite custom-property
\* map, self-references and mutual cycles included: the call returns a
\* (possibly partially resolved) string, it neither loops nor recurses
\* without bound.
C7_Terminates == <>(pc = "done" /\ rvStack = <<>>)

\* a call through the mutual cycle --a: var(--b), --b: var(--a) has returned
\* with the cycle's reference left in the string
C7_Witness ==
    /\ pc = "done"
    /\ DOMAIN customProperties = {"--a", "--b"}
    /\ customProperties["--a"] = <<Ref("--b")>>
    /\ customProperties["--b"] = <<Ref("--a")>>
    /\ rvSeen = {"--a", "--b"}
    /\ rvSteps >= 3
    /\ \E i \in 1..Len(rvReturn) : rvReturn[i].kind = "ref"

\* the names a value refers to
RefsOf(value) == {value[i].name : i \in {j \in 1..Len(value) : value[j].kind = "ref"}}

\* no custom property refers to itself, directly or through others: no
\* non-empty set of properties in which each refers to one of the set
AcyclicProperties ==
    \A S \in SUBSET (DOMAIN customProperties) :
        S # {} => \E n \in S : RefsOf(customProperties[n]) \cap S = {}

\* every name is defined with a non-empty value, so whatever the resolved
\* value refers to is defined
AllDefined ==
    \A n \in VarNames : hasReplacement(customProperties, n)

\* C28: when the custom-property references are acyclic and every
\* referenced property is defined, the value resolveVar returns holds no
\* var(--...) reference, also when the value refers to one property twice or
\* to two properties of which one refers to the other.
C28_NoReferenceLeft ==
    (pc = "done" /\ AcyclicProperties /\ AllDefined) =>
        \A i \in 1..Len(rvReturn) : rvReturn[i].kind # "ref"

-----------------------------------------------------------------------------
(* Specification SpecRoundTrip: hexToHsl followed by hslToHex              *)

\* hexToHsl, the alias of colorToHsl
hexToHsl(hex) == colorToHsl(hex)

\* channel values of the 6-digit hex colours converted
RoundTripLevels == {0, 2, 26, 115, 125, 228, 230, 232, 255}

RoundTripPalette ==
    {Hex6(r, g, b) : r \in RoundTripLevels, g \in RoundTripLevels,
                     b \in RoundTripLevels}

InitRoundTrip ==
    /\ pc = "start"
    /\ fnInput \in RoundTripPalette
    /\ fnOutput = <<>>
    /\ IdleRoles /\ IdleTheme /\ IdleDark /\ IdleMulti /\ IdleResolve /\ IdleApi

HexToHsl ==
    /\ pc = "start"
    /\ fnOutput' = <<hexToHsl(fnInput)>>
    /\ pc' = "hsl"
    /\ UNCHANGED fnInput
    /\ UNCHANGED <<rolesVars, themeVars, darkVars, multiVars, resolveVars, apiVars>>

HslToHex ==
    /\ pc = "hsl"
    /\ fnOutput' = Append(fnOutput,
                          hslToHex(fnOutput[1].h, fnOutput[1].s, 10 * fnOutput[1].l))
    /\ pc' = "done"
    /\ UNCHANGED fnInput
    /\ UNCHANGED <<rolesVars, themeVars, darkVars, multiVars, resolveVars, apiVars>>

NextRoundTrip == HexToHsl \/ HslToHex

SpecRoundTrip == InitRoundTrip /\ [][NextRoundTrip]_vars

Distance(x, y) == IF x >= y THEN x - y ELSE y - x

\* the largest difference between a channel of the colour converted and the
\* same channel of the colour converted back
ChannelError ==
    Max2(Distance(fnOutput[2].r, fnInput.r),
         Max2(Distance(fnOutput[2].g, fnInput.g),
              Distance(fnOutput[2].b, fnInput.b)))

-----------------------------------------------------------------------------
(* Specification SpecNormalize: normalizeColorToHex applied twice          *)
(*                                                                         *)
(* Here a hex literal is the sequence of its hex digits, so that the       *)
(* number of digits normalizeColorToHex writes and tests is part of the    *)
(* value; rgb() and hsl() literals are the numbers written in them.        *)

HexString(digits)     == [fmt |-> "hex", digits |-> digits]
RgbString(r, g, b, a) == [fmt |-> IF a = <<>> THEN "rgb" ELSE "rgba",
                          r |-> r, g |-> g, b |-> b, a |-> a]
HslString(h, s, l, a) == [fmt |-> IF a = <<>> THEN "hsl" ELSE "hsla",
                          h |-> h, s |-> s, l |-> l, a |-> a]

\* n.toString(16) for n >= 0
RECURSIVE toString16(_)
toString16(n) ==
    IF n < 16 THEN <<n>> ELSE Append(toString16(n \div 16), n % 16)

\* toHex: one digit is padded to two, longer strings are kept
toHex(n) ==
    LET hex == toString16(n)
    IN  IF Len(hex) = 1 THEN <<0>> \o hex ELSE hex

\* normalizeColorToHex on the text of the literal
normalizeColorToHexString(color) ==
    IF color.fmt = "hex"
    THEN LET hex == color.digits
         IN  IF Len(hex) = 3
             THEN HexString(<<hex[1], hex[1], hex[2], hex[2], hex[3], hex[3]>>)
             ELSE IF Len(hex) = 8 THEN HexString(SubSeq(hex, 1, 6))
             ELSE color
    ELSE IF color.fmt \in {"rgb", "rgba"}
    THEN HexString(toHex(color.r) \o toHex(color.g) \o toHex(color.b))
    ELSE LET rgb == hslToHex(color.h, color.s, 10 * color.l)
         IN  HexString(toHex(rgb.r) \o toHex(rgb.g) \o toHex(rgb.b))

\* the literals normalised: 3-, 6- and 8-digit hex, rgb() and rgba() with
\* channel numbers up to 300 (CSS accepts numbers above 255 and clamps
\* them), hsl() and hsla()
ShortHexStrings == {HexString(d) : d \in [1..3 -> {0, 10, 15}]}

LongHexStrings ==
    {HexString(toHex(r) \o toHex(g) \o toHex(b)) :
        r \in {0, 26, 255}, g \in {0, 115, 255}, b \in {0, 232, 255}}

AlphaHexStrings == {HexString(c.digits \o <<8, 0>>) : c \in LongHexStrings}

RgbStrings ==
    {RgbString(r, g, b, a) : r \in {0, 26, 255, 300}, g \in {0, 115, 255, 300},
                             b \in {0, 232, 255}, a \in {<<>>, <<5>>}}

HslStrings ==
    {HslString(h, s, l, a) : h \in {0, 120, 214}, s \in {0, 82, 100},
                             l \in {0, 51, 100}, a \in {<<>>, <<5>>}}

ColorStrings ==
    ShortHexStrings \cup LongHexStrings \cup AlphaHexStrings
        \cup RgbStrings \cup HslStrings

InitNormalize ==
    /\ pc = "start"
    /\ fnInput \in ColorStrings
    /\ fnOutput = <<>>
    /\ IdleRoles /\ IdleTheme /\ IdleDark /\ IdleMulti /\ IdleResolve /\ IdleApi

Normalize ==
    /\ pc = "start"
    /\ fnOutput' = <<normalizeColorToHexString(fnInput)>>
    /\ pc' = "once"
    /\ UNCHANGED fnInput
    /\ UNCHANGED <<rolesVars, themeVars, darkVars, multiVars, resolveVars, apiVars>>

NormalizeAgain ==
    /\ pc = "once"
    /\ fnOutput' = Append(fnOutput, normalizeColorToHexString(fnOutput[1]))
    /\ pc' = "done"
    /\ UNCHANGED fnInput
    /\ UNCHANGED <<rolesVars, themeVars, darkVars, multiVars, resolveVars, apiVars>>

NextNormalize == Normalize \/ NormalizeAgain

SpecNormalize == InitNormalize /\ [][NextNormalize]_vars

\* C14: normalizeColorToHex is idempotent: for every 3-, 6- or 8-digit hex,
\* rgb(), rgba(), hsl() or hsla() literal, normalising the normalised
\* literal gives the normalised literal again.
C14_Idempotent ==
    pc = "done" => fnOutput[2] = fnOutput[1]

-----------------------------------------------------------------------------
(* Specification SpecFrequency: the colours extractTokensFromCss collects  *)
(* from the declarations of a style sheet, and their frequency table       *)

\* A declaration is what the walk reads from it: whether its property
\* matches /color|background|border|fill|stroke|shadow|outline|caret|
\* text-decoration|accent-color/i, whether shouldIgnoreRule holds for it,
\* the colour literals the colour regex finds in its value, in order, and
\* the colour keywords among the words of its value.
Decl(colorProp, ignored, matches, keywords) ==
    [colorProp |-> colorProp, ignored |-> ignored, matches |-> matches,
     keywords |-> keywords]

\* a colour keyword is the record of its name
Keyword(name) == [fmt |-> name, r |-> 0, g |-> 0, b |-> 0, a |-> 0]

\* the matches that are not in the extractor's list of browser defaults
\* (the list holds the colours of browserDefaults)
notBrowserDefault(matches) ==
    SelectSeq(matches, LAMBDA color : color \notin browserDefaults)

\* what one declaration adds to colors: the colour-property block, then the
\* block that reads every value
pushedColors(decl) ==
    LET fromColorProp ==
            IF ~decl.ignored /\ decl.colorProp
            THEN notBrowserDefault(decl.matches)
                 \o (IF decl.matches = <<>> THEN decl.keywords ELSE <<>>)
            ELSE <<>>
        fromAnyValue ==
            IF ~decl.ignored THEN notBrowserDefault(decl.matches) ELSE <<>>
    IN  fromColorProp \o fromAnyValue

RECURSIVE collectColors(_)
collectColors(decls) ==
    IF decls = <<>> THEN <<>>
    ELSE pushedColors(Head(decls)) \o collectColors(Tail(decls))

\* frequencyMap: the distinct values in the order of their first occurrence,
\* each with the number of its occurrences in arr
RECURSIVE frequencyMap(_, _)
frequencyMap(arr, freq) ==
    IF arr = <<>> THEN freq
    ELSE LET v == Head(arr)
             i == indexOfValue(freq, v)
         IN  frequencyMap(Tail(arr),
                          IF i = 0 THEN Append(freq, [value |-> v, count |-> 1])
                          ELSE [freq EXCEPT ![i].count = @ + 1])

\* frequencyArray(arr) on an array of values: the entries of frequencyMap
\* with their prevalence, sorted by descending count
frequencyArrayOfValues(arr) ==
    LET freq  == frequencyMap(arr, <<>>)
        keyed == [i \in 1..Len(freq) |-> [key |-> freq[i].count, e |-> freq[i]]]
        srt   == SortDesc(keyed)
    IN  frequencyArray([i \in 1..Len(srt) |-> srt[i].e])

MaxDecls == 2

FocusBlue == Hex6(37, 99, 235)

\* .btn{background:#1a73e8}, a{color:#1a73e8;...}, :root{--brand:#1a73e8},
\* a border with two colours, a gradient naming one colour twice, a rule
\* under :hover, a browser-default colour, a keyword, a width
Declarations ==
    {Decl(TRUE, FALSE, <<Blue>>, <<>>),
     Decl(FALSE, FALSE, <<Blue>>, <<>>),
     Decl(TRUE, FALSE, <<Red, Blue>>, <<>>),
     Decl(TRUE, FALSE, <<Hex3(255, 255, 255), Hex3(255, 255, 255)>>, <<>>),
     Decl(FALSE, FALSE, <<Red>>, <<>>),
     Decl(TRUE, TRUE, <<Red>>, <<>>),
     Decl(TRUE, FALSE, <<FocusBlue>>, <<>>),
     Decl(TRUE, FALSE, <<>>, <<Keyword("red")>>),
     Decl(FALSE, FALSE, <<>>, <<Keyword("red")>>),
     Decl(FALSE, FALSE, <<>>, <<>>)}

InitFrequency ==
    /\ pc = "start"
    /\ fnInput \in SeqUpTo(Declarations, MaxDecls)
    /\ fnOutput = <<>>
    /\ IdleRoles /\ IdleTheme /\ IdleDark /\ IdleMulti /\ IdleResolve /\ IdleApi

ExtractTokensFromCss ==
    /\ pc = "start"
    /\ fnOutput' = frequencyArrayOfValues(collectColors(fnInput))
    /\ pc' = "done"
    /\ UNCHANGED fnInput
    /\ UNCHANGED <<rolesVars, themeVars, darkVars, multiVars, resolveVars, apiVars>>

NextFrequency == ExtractTokensFromCss

SpecFrequency == InitFrequency /\ [][NextFrequency]_vars

\* the colour literals and keywords of the declarations collected for the
\* colour kind: those of the rules not ignored, browser defaults left out,
\* keywords only from colour properties whose value has no colour literal
CollectedOccurrences(decl) ==
    IF decl.ignored THEN <<>>
    ELSE notBrowserDefault(decl.matches)
         \o (IF decl.colorProp /\ decl.matches = <<>> THEN decl.keywords ELSE <<>>)

RECURSIVE OccurrencesIn(_, _)
OccurrencesIn(decls, v) ==
    IF decls = <<>> THEN 0
    ELSE Len(SelectSeq(CollectedOccurrences(Head(decls)), LAMBDA c : c = v))
         + OccurrencesIn(Tail(decls), v)

\* C20: the colour frequency table has exactly one entry per distinct raw
\* value, is sorted by descending count, and the count of an entry is the
\* number of occurrences of its value in the collected declarations: every
\* occurrence of a colour literal adds exactly 1.
C20_CountsOccurrences ==
    pc = "done" =>
        /\ \A i, j \in 1..Len(fnOutput) :
              /\ fnOutput[i].value = fnOutput[j].value => i = j
              /\ i < j => fnOutput[i].count >= fnOutput[j].count
        /\ \A i \in 1..Len(fnOutput) :
              fnOutput[i].count = OccurrencesIn(fnInput, fnOutput[i].value)

-----------------------------------------------------------------------------
(* Specification SpecExtractors: the colours collected from the same       *)
(* declarations by the command-line extractor and by the extractor of the  *)
(* API's AnalysisService                                                   *)

\* AnalysisService.isValidColor: no match of the declarations modelled is
\* one of inherit, initial, unset, auto, none, transparent
isValidColor(match) ==
    match.fmt \notin {"inherit", "initial", "unset", "auto", "none", "transparent"}

\* AnalysisService.extractTokensByProperty, the colours it pushes for one
\* declaration: for a colour property every match of the colour regex, which
\* also matches the lower-case words of the value.  The selector of the rule
\* is not read.  (A custom property returns before this call; none of the
\* custom properties modelled is a colour property.)
extractTokensByProperty(decl) ==
    IF decl.colorProp
    THEN SelectSeq(decl.matches \o decl.keywords, isValidColor)
    ELSE <<>>

RECURSIVE walkDeclsOfService(_)
walkDeclsOfService(decls) ==
    IF decls = <<>> THEN <<>>
    ELSE extractTokensByProperty(Head(decls)) \o walkDeclsOfService(Tail(decls))

InitExtractors ==
    /\ pc = "start"
    /\ fnInput \in SeqUpTo(Declarations, MaxDecls)
    /\ fnOutput = <<>>
    /\ IdleRoles /\ IdleTheme /\ IdleDark /\ IdleMulti /\ IdleResolve /\ IdleApi

\* AnalysisService.extractTokensFromCss, tokens.colors.frequency
ServiceExtractTokensFromCss ==
    /\ pc = "start"
    /\ fnOutput' = frequencyArrayOfValues(walkDeclsOfService(fnInput))
    /\ pc' = "done"
    /\ UNCHANGED fnInput
    /\ UNCHANGED <<rolesVars, themeVars, darkVars, multiVars, resolveVars, apiVars>>

\* the style sheet is read by either extractor
NextExtractors == ExtractTokensFromCss \/ ServiceExtractTokensFromCss

SpecExtractors == InitExtractors /\ [][NextExtractors]_vars

\* the colours written in a declaration
WrittenIn(decl) ==
    {decl.matches[i] : i \in 1..Len(decl.matches)}
    \cup {decl.keywords[i] : i \in 1..Len(decl.keywords)}

\* the colours that occur in the style sheet, and only in declarations of
\* rules shouldIgnoreRule holds for (rules under :hover, :focus, :visited,
\* :active, :target)
OnlyInIgnoredRules ==
    {v \in UNION {WrittenIn(fnInput[i]) : i \in 1..Len(fnInput)} :
        \A i \in 1..Len(fnInput) : v \in WrittenIn(fnInput[i]) => fnInput[i].ignored}

\* C21: a colour literal that occurs only in declarations of rules whose
\* selector contains a denylisted pseudo-state is not among the extracted
\* colour tokens, whichever of the two extractors reads the style sheet.
C21_IgnoredRulesExcluded ==
    pc = "done" =>
        \A i \in 1..Len(fnOutput) : fnOutput[i].value \notin OnlyInIgnoredRules

-----------------------------------------------------------------------------
(* ApiKeyService and the middleware chain of GetSiteStylesServer           *)
(*                                                                         *)
(* One API key is observed.  A request presents that key ("valid"), a      *)
(* string no key has ("unknown") or nothing ("none").  Time is counted in  *)
(* ticks; windowMs, the same for every tier, is WindowTicks ticks.         *)

RATE_LIMIT_TIERS ==
    [basic      |-> [maxRequests |-> 100,  monthlyLimit |-> 1000],
     premium    |-> [maxRequests |-> 500,  monthlyLimit |-> 10000],
     enterprise |-> [maxRequests |-> 2000, monthlyLimit |-> 100000]]

WindowTicks == 2

MaxTime == 2

\* getNextMonthReset seen from the ticks observed: a tick that is not reached
MonthTicks == MaxTime + WindowTicks + 1

\* an ApiKeyData record; monthlyLimit is <<>> when the field is undefined
ApiKey(name, tier, monthlyLimit, monthlyUsage, monthlyResetAt, isActive) ==
    [name |-> name, rateLimitTier |-> tier, monthlyLimit |-> monthlyLimit,
     monthlyUsage |-> monthlyUsage, monthlyResetAt |-> monthlyResetAt,
     isActive |-> isActive]

\* initializeDefaultKeys: a key of DEFAULT_API_KEYS and the ADMIN_API_KEY key
defaultKey == ApiKey("Default Key 1", "basic", <<>>, 0, MonthTicks, TRUE)
adminKey   == ApiKey("Admin Key", "enterprise", <<>>, 0, MonthTicks, TRUE)

\* createApiKey(name, tier)
createApiKey(name, tier) ==
    ApiKey(name, tier, <<RATE_LIMIT_TIERS[tier].monthlyLimit>>, 0, MonthTicks, TRUE)

\* ApiKeyService.validateApiKey(key) at time t: keyData is <<>> for null,
\* apiKey is the stored record afterwards, reset tells whether the monthly
\* usage was reset
validateApiKey(key, apiKey, t) ==
    IF key # "valid" \/ ~apiKey.isActive
    THEN [keyData |-> <<>>, apiKey |-> apiKey, reset |-> FALSE]
    ELSE IF apiKey.monthlyLimit # <<>>
            /\ apiKey.monthlyUsage >= apiKey.monthlyLimit[1]
    THEN [keyData |-> <<>>, apiKey |-> apiKey, reset |-> FALSE]
    ELSE IF t >= apiKey.monthlyResetAt
    THEN LET fresh == [apiKey EXCEPT !.monthlyUsage = 0,
                                     !.monthlyResetAt = t + MonthTicks]
         IN  [keyData |-> <<fresh>>, apiKey |-> fresh, reset |-> TRUE]
    ELSE [keyData |-> <<apiKey>>, apiKey |-> apiKey, reset |-> FALSE]

\* variant: the limit test of checkRateLimit lets one more request through
rateLimitReachedLate(rateLimitData, tier) ==
    rateLimitData.count > RATE_LIMIT_TIERS[tier].maxRequests

\* rateLimitData.count >= tier.maxRequests
rateLimitReached(rateLimitData, tier) ==
    rateLimitData.count >= RATE_LIMIT_TIERS[tier].maxRequests

\* ApiKeyService.checkRateLimit(apiKey) at time t: store is the entry of the
\* key afterwards (<<>> when there is none)
checkRateLimit(store, tier, t) ==
    LET rateLimitData ==
            IF store = <<>> \/ t >= store[1].resetAt
            THEN [count |-> 0, resetAt |-> t + WindowTicks]
            ELSE store[1]
    IN  IF rateLimitReached(rateLimitData, tier)
        THEN [allowed |-> FALSE, resetAt |-> rateLimitData.resetAt, store |-> store]
        ELSE [allowed |-> TRUE, resetAt |-> rateLimitData.resetAt,
              store |-> <<[rateLimitData EXCEPT !.count = @ + 1]>>]

\* ApiKeyService.logUsage: the usage counters of the key
logUsage(apiKey) == [apiKey EXCEPT !.monthlyUsage = @ + 1]

\* variant: the admin routes are mounted without requireAdmin
middlewareOfOpenAdmin(path) ==
    CASE path = "health"  -> <<>>
      [] path = "analyze" -> <<"validateApiKey", "logUsage">>
      [] path = "admin"   -> <<"validateApiKey", "logUsage">>

\* setupRoutes: the middleware a request passes before the handler of its
\* route.  GET /api/v1/health is registered before app.use('/api/v1', ...);
\* the routes under /api/v1/admin also pass requireAdmin.
middlewareOf(path) ==
    CASE path = "health"  -> <<>>
      [] path = "analyze" -> <<"validateApiKey", "logUsage">>
      [] path = "admin"   -> <<"validateApiKey", "logUsage", "requireAdmin">>

InChain(name, path) ==
    \E k \in 1..Len(middlewareOf(path)) : middlewareOf(path)[k] = name

\* a request as it is received: no response status yet (0), req.apiKey unset
NewRequest(path, key) ==
    [path |-> path, key |-> key, stage |-> "received", status |-> 0,
     error |-> "", apiKey |-> <<>>, logged |-> FALSE, handler |-> FALSE]

\* sendError(res, code, message, status)
sendError(req, code, status) ==
    [req EXCEPT !.stage = "sent", !.status = status, !.error = code]

\* what follows validateApiKey in the chain, run in one go: logUsage wraps
\* res.send, requireAdmin answers 403 or calls next, the handler starts
afterValidate(req) ==
    LET wrapped == [req EXCEPT !.logged = InChain("logUsage", req.path)]
    IN  IF InChain("requireAdmin", req.path)
           /\ (wrapped.apiKey = <<>>
               \/ wrapped.apiKey[1].rateLimitTier # "enterprise")
        THEN sendError(wrapped, "ADMIN_REQUIRED", 403)
        ELSE [wrapped EXCEPT !.stage = "handler", !.handler = TRUE]

\* the wrapped res.send logs the usage when req.apiKey is set
sendLogsUsage(req) == req.logged /\ req.apiKey # <<>>

-----------------------------------------------------------------------------
(* Specification SpecApi: requests served with one API key                 *)

MaxRequests == 2

\* the key observed: a default key, the admin key, keys made by
\* createApiKey, and a key deactivated by updateApiKey
InitialKeys ==
    {defaultKey, adminKey,
     createApiKey("Created Key", "basic"),
     [createApiKey("Inactive Key", "basic") EXCEPT !.isActive = FALSE]}

\* the route and the key of a request
RequestPool ==
    {<<"health", "none">>, <<"analyze", "none">>, <<"analyze", "unknown">>,
     <<"analyze", "valid">>, <<"admin", "valid">>}

\* a rate check: the request it was made for (0: before the first request
\* observed), its time, the end of the window it fell in and its result; n
\* checks that differ in the request only are written as one
RateCheck(req, at, resetAt, allowed, n) ==
    [req |-> req, at |-> at, resetAt |-> resetAt, allowed |-> allowed, n |-> n]

\* The observation starts with the key unused, or one tick after the window
\* of the key was opened, with maxRequests - 1 or maxRequests requests let
\* through and answered in it (one at tick 0, the others at tick 1) and
\* none before; the unused window comes with a monthly usage of 0, one
\* below the tier's monthly limit, or at it.
InitApi ==
    /\ pc = "serve"
    /\ requests = <<>>
    /\ \E key \in InitialKeys, monthlyResetAt \in {WindowTicks, MonthTicks} :
         LET tier == RATE_LIMIT_TIERS[key.rateLimitTier]
         IN  \E inWindow \in {0, tier.maxRequests - 1, tier.maxRequests} :
               \E used \in IF inWindow > 0 THEN {inWindow}
                            ELSE {0, tier.monthlyLimit - 1, tier.monthlyLimit} :
                  /\ apiKeys = [key EXCEPT !.monthlyUsage = used,
                                           !.monthlyResetAt = monthlyResetAt]
                  /\ now = IF inWindow = 0 THEN 0 ELSE 1
                  /\ rateLimitStore =
                        IF inWindow = 0 THEN <<>>
                        ELSE <<[count |-> inWindow, resetAt |-> WindowTicks]>>
                  /\ apiHistory =
                        [checks |->
                            IF inWindow = 0 THEN <<>>
                            ELSE <<RateCheck(0, 0, WindowTicks, TRUE, 1),
                                   RateCheck(0, 1, WindowTicks, TRUE, inWindow - 1)>>,
                         accepted |-> used]
    /\ IdleRoles /\ IdleTheme /\ IdleDark /\ IdleMulti /\ IdleResolve /\ IdleFn

\* a request arrives and is routed
Receive(path, key) ==
    /\ pc = "serve"
    /\ Len(requests) < MaxRequests
    /\ requests' = Append(requests,
                          IF InChain("validateApiKey", path)
                          THEN [NewRequest(path, key) EXCEPT !.stage = "validateApiKey"]
                          ELSE afterValidate(NewRequest(path, key)))
    /\ UNCHANGED <<now, apiKeys, rateLimitStore, apiHistory, pc>>
    /\ UNCHANGED <<rolesVars, themeVars, darkVars, multiVars, resolveVars, fnVars>>

\* AuthMiddleware.validateApiKey up to its first await
ValidateApiKey(i) ==
    /\ pc = "serve"
    /\ requests[i].stage = "validateApiKey"
    /\ IF requests[i].key = "none"
       THEN /\ requests' = [requests EXCEPT ![i] = sendError(@, "MISSING_API_KEY", 401)]
            /\ UNCHANGED <<apiKeys, apiHistory>>
       ELSE LET v == validateApiKey(requests[i].key, apiKeys, now)
            IN  /\ apiKeys' = v.apiKey
                /\ IF v.keyData = <<>>
                   THEN /\ requests' = [requests EXCEPT
                                          ![i] = sendError(@, "INVALID_API_KEY", 401)]
                        /\ UNCHANGED apiHistory
                   ELSE /\ requests' = [requests EXCEPT ![i].stage = "checkRateLimit"]
                        /\ apiHistory' =
                              [apiHistory EXCEPT
                                 !.accepted = (IF v.reset THEN 0 ELSE @) + 1]
    /\ UNCHANGED <<now, rateLimitStore, pc>>
    /\ UNCHANGED <<rolesVars, themeVars, darkVars, multiVars, resolveVars, fnVars>>

\* AuthMiddleware.validateApiKey from the rate check on, and what next()
\* runs before the handler waits for the first time
CheckRateLimit(i) ==
    /\ pc = "serve"
    /\ requests[i].stage = "checkRateLimit"
    /\ LET r == checkRateLimit(rateLimitStore, apiKeys.rateLimitTier, now)
       IN  /\ rateLimitStore' = r.store
           /\ apiHistory' =
                 [apiHistory EXCEPT
                    !.checks = Append(@, RateCheck(i, now, r.resetAt, r.allowed, 1))]
           /\ IF ~r.allowed
              THEN /\ requests' = [requests EXCEPT
                                     ![i] = sendError(@, "RATE_LIMIT_EXCEEDED", 429)]
                   /\ UNCHANGED apiKeys
              ELSE LET next == afterValidate([requests[i] EXCEPT !.apiKey = <<apiKeys>>])
                   IN  /\ requests' = [requests EXCEPT ![i] = next]
                       /\ apiKeys' = IF next.stage = "sent" /\ sendLogsUsage(next)
                                     THEN logUsage(apiKeys) ELSE apiKeys
    /\ UNCHANGED <<now, pc>>
    /\ UNCHANGED <<rolesVars, themeVars, darkVars, multiVars, resolveVars, fnVars>>

\* the handler sends its response
Respond(i) ==
    /\ pc = "serve"
    /\ requests[i].stage = "handler"
    /\ requests' = [requests EXCEPT ![i].stage = "sent", ![i].status = 200]
    /\ apiKeys' = IF sendLogsUsage(requests[i]) THEN logUsage(apiKeys) ELSE apiKeys
    /\ UNCHANGED <<now, rateLimitStore, apiHistory, pc>>
    /\ UNCHANGED <<rolesVars, themeVars, darkVars, multiVars, resolveVars, fnVars>>

Tick ==
    /\ pc = "serve"
    /\ now < MaxTime
    /\ now' = now + 1
    /\ UNCHANGED <<apiKeys, rateLimitStore, requests, apiHistory, pc>>
    /\ UNCHANGED <<rolesVars, themeVars, darkVars, multiVars, resolveVars, fnVars>>

NextApi ==
    \/ \E rq \in RequestPool : Receive(rq[1], rq[2])
    \/ \E i \in 1..Len(requests) : ValidateApiKey(i)
    \/ \E i \in 1..Len(requests) : CheckRateLimit(i)
    \/ \E i \in 1..Len(requests) : Respond(i)
    \/ Tick

SpecApi == InitApi /\ [][NextApi]_vars

Checks == apiHistory.checks

TierOfKey == RATE_LIMIT_TIERS[apiKeys.rateLimitTier]

\* the rate checks among the first k that returned allowed and satisfy In
AllowedAmong(k, In(_)) ==
    SumSeq([j \in 1..k |->
              IF Checks[j].allowed /\ In(Checks[j]) THEN Checks[j].n ELSE 0])

\* C11 as stated: in any period of one window length the rate checks that
\* return allowed are at most the tier's maxRequests (periods that start at
\* a rate check are enough).
C11_Original ==
    pc = "serve" =>
        \A k \in 1..Len(Checks) :
            LET InPeriod(c) == /\ c.at >= Checks[k].at
                               /\ c.at < Checks[k].at + WindowTicks
            IN  AllowedAmong(Len(Checks), InPeriod) <= TierOfKey.maxRequests

\* C11 amended: the limit holds per fixed window.  A window opens with the
\* first rate check made when the key has no window or its window is over,
\* and lasts one window length; within it at most maxRequests rate checks
\* return allowed, a check is refused exactly when maxRequests were let
\* through in its window before it, and the refused request is answered 429
\* RATE_LIMIT_EXCEEDED.
C11_FixedWindowLimit ==
    pc = "serve" =>
        \A k \in 1..Len(Checks) :
            LET SameWindow(c) == c.resetAt = Checks[k].resetAt
            IN  /\ Checks[k].resetAt - WindowTicks <= Checks[k].at
                /\ Checks[k].at < Checks[k].resetAt
                /\ AllowedAmong(Len(Checks), SameWindow) <= TierOfKey.maxRequests
                /\ Checks[k].req # 0 =>
                     /\ Checks[k].allowed <=>
                          AllowedAmong(k - 1, SameWindow) < TierOfKey.maxRequests
                     /\ ~Checks[k].allowed =>
                          /\ requests[Checks[k].req].status = 429
                          /\ requests[Checks[k].req].error = "RATE_LIMIT_EXCEEDED"
                          /\ ~requests[Checks[k].req].handler

\* C11 witness: a request was refused with 429 in a window in which
\* maxRequests requests had been let through, and a request made after the
\* window was over was let through.
C11_Witness ==
    /\ pc = "serve"
    /\ \E k, m \in 1..Len(Checks) :
          /\ ~Checks[k].allowed
          /\ requests[Checks[k].req].status = 429
          /\ m > k
          /\ Checks[m].allowed
          /\ Checks[m].resetAt > Checks[k].resetAt

\* C12: for every key, the default keys included, the requests accepted by
\* validateApiKey between two monthly resets never exceed the monthly limit
\* of the key's tier, whatever the interleaving of the requests.
C12_MonthlyLimit ==
    pc = "serve" => apiHistory.accepted <= TierOfKey.monthlyLimit

\* validateApiKey let the i-th request through: its key is the key observed,
\* the key is active, and a rate check made for it returned allowed
Accepted(i) ==
    /\ requests[i].key = "valid"
    /\ apiKeys.isActive
    /\ \E k \in 1..Len(Checks) : Checks[k].req = i /\ Checks[k].allowed

\* C13: a request to a route under /api/v1 other than the health check
\* reaches its handler only after validateApiKey accepted a key for it; a
\* request without a key is answered 401 and never reaches the handler; a
\* route under /api/v1/admin is reached only with a key of tier enterprise,
\* and an accepted key of another tier is answered 403.
C13_HandlerOnlyAfterAuth ==
    pc = "serve" =>
        \A i \in 1..Len(requests) :
            requests[i].path # "health" =>
                /\ requests[i].handler => Accepted(i)
                /\ requests[i].key = "none" =>
                     /\ ~requests[i].handler
                     /\ requests[i].stage = "sent" => requests[i].status = 401
                /\ requests[i].path = "admin" =>
                     /\ requests[i].handler => apiKeys.rateLimitTier = "enterprise"
                     /\ (Accepted(i) /\ apiKeys.rateLimitTier # "enterprise") =>
                          /\ requests[i].status = 403
                          /\ ~requests[i].handler

\* C13 witness: with a basic key, a request to an admin route was accepted
\* by validateApiKey and answered 403, a request without a key was answered
\* 401, and neither reached a handler.
C13_Witness ==
    /\ pc = "serve"
    /\ apiKeys.rateLimitTier = "basic"
    /\ \E i, j \in 1..Len(requests) :
          /\ requests[i].path = "admin" /\ Accepted(i)
          /\ requests[i].status = 403 /\ ~requests[i].handler
          /\ requests[j].key = "none" /\ requests[j].path # "health"
          /\ requests[j].status = 401 /\ ~requests[j].handler


\* C26: a key of which the monthly usage has reached the monthly limit is
\* accepted by the first validateApiKey call made at or after its
\* monthlyResetAt, and that call resets its monthly usage to 0.
C26_ExhaustedKeyResets ==
    [][\A i \in 1..Len(requests) :
          (/\ pc = "serve"
           /\ requests[i].stage = "validateApiKey"
           /\ requests'[i].stage # "validateApiKey"
           /\ requests[i].key = "valid"
           /\ apiKeys.isActive
           /\ apiKeys.monthlyLimit # <<>>
           /\ apiKeys.monthlyUsage >= TierOfKey.monthlyLimit
           /\ now >= apiKeys.monthlyResetAt)
          => (/\ requests'[i].stage = "checkRateLimit"
              /\ apiKeys'.monthlyUsage = 0)]_vars

-----------------------------------------------------------------------------
(* analyzeSemanticColors                                                    *)
(*                                                                         *)
(* The page is what the function reads from it: the elements in document   *)
(* order, each with the rows of the selector table that match it and the   *)
(* colours of its inline style; the rules of the CSS text, each with what  *)
(* the line parser and the context patterns find in it; and the colours    *)
(* analyzeTailwindUsage reports.                                           *)

\* the rows of SEMANTIC_SELECTORS; a row's selector is its first alternative
SEMANTIC_SELECTORS ==
    << [selector |-> "button",            context |-> "button",     weight |-> 100],
       [selector |-> ".btn",              context |-> "button",     weight |-> 95],
       [selector |-> ".cta",              context |-> "cta",        weight |-> 90],
       [selector |-> "nav",               context |-> "navigation", weight |-> 85],
       [selector |-> "nav a",             context |-> "navigation", weight |-> 80],
       [selector |-> ".logo",             context |-> "brand",      weight |-> 95],
       [selector |-> "header",            context |-> "header",     weight |-> 90],
       [selector |-> ".header-wrapper",   context |-> "header",     weight |-> 85],
       [selector |-> ".hero",             context |-> "hero",       weight |-> 85],
       [selector |-> ".hero-wrapper",     context |-> "hero",       weight |-> 80],
       [selector |-> "footer",            context |-> "brand",      weight |-> 80],
       [selector |-> ".footer-wrapper",   context |-> "brand",      weight |-> 75],
       [selector |-> ".sidebar",          context |-> "brand",      weight |-> 70],
       [selector |-> "main",              context |-> "brand",      weight |-> 60],
       [selector |-> ".section",          context |-> "accent",     weight |-> 65],
       [selector |-> ".container",        context |-> "accent",     weight |-> 55],
       [selector |-> ".card",             context |-> "accent",     weight |-> 65],
       [selector |-> ".modal",            context |-> "accent",     weight |-> 65],
       [selector |-> "[class*=framer-]",  context |-> "brand",      weight |-> 70],
       [selector |-> "input:focus",       context |-> "form",       weight |-> 70],
       [selector |-> ".form-control:focus", context |-> "form",     weight |-> 70],
       [selector |-> ".active",           context |-> "status",     weight |-> 75],
       [selector |-> ".badge",            context |-> "status",     weight |-> 65],
       [selector |-> ".alert",            context |-> "status",     weight |-> 60],
       [selector |-> "a[class*=primary]", context |-> "link",       weight |-> 60],
       [selector |-> ".accent",           context |-> "accent",     weight |-> 70],
       [selector |-> "h1",                context |-> "header",     weight |-> 50] >>

COLOR_PROPERTIES ==
    <<"color", "background-color", "background", "border-color",
      "border-top-color", "border-right-color", "border-bottom-color",
      "border-left-color", "outline-color", "text-decoration-color", "fill",
      "stroke">>

\* an element: its tag, its classes, the rows whose selector matches it, the
\* colour its inline style gives for a property, its depth and its position
\* in the document (in hundredths)
Element(tagName, classes, rows, style, domDepth, documentPosition) ==
    [tagName |-> tagName, classes |-> classes, rows |-> rows, style |-> style,
     domDepth |-> domDepth, documentPosition |-> documentPosition]

\* a rule of the CSS text with one colour declaration: whether it is written
\* over several lines (the line parser reads only such rules), the tag and
\* class names its selector text includes, whether the selector has a
\* [type=submit], [type=button] or [role=button] attribute, the contexts one
\* of whose patterns matches the rule, and whether it declares a custom
\* property named --header*, --brand*, --primary* or --main*
CssRule(multiLine, tags, classes, buttonAttr, contexts, customProp, prop, color) ==
    [multiLine |-> multiLine, tags |-> tags, classes |-> classes,
     buttonAttr |-> buttonAttr, contexts |-> contexts, customProp |-> customProp,
     prop |-> prop, color |-> color]

\* a SemanticColorData entry; -1 stands for a field left undefined
SemanticColor(color, element, row, property, frequency, domDepth,
              documentPosition, firstSeenIndex) ==
    [color |-> color, element |-> element,
     context |-> SEMANTIC_SELECTORS[row].context,
     weight |-> SEMANTIC_SELECTORS[row].weight,
     selector |-> SEMANTIC_SELECTORS[row].selector,
     property |-> property, frequency |-> frequency, domDepth |-> domDepth,
     documentPosition |-> documentPosition, firstSeenIndex |-> firstSeenIndex]

\* position of a value in a sequence, 0 when it is not there
indexIn(seq, value) ==
    IF \E i \in 1..Len(seq) : seq[i] = value
    THEN CHOOSE i \in 1..Len(seq) : seq[i] = value /\ \A j \in 1..(i - 1) : seq[j] # value
    ELSE 0

\* semanticColors.find(...) followed by `existing.frequency += n` or by the
\* push of a new entry; withElement tells whether find compares the element
addSemanticColor(semanticColors, entry, withElement) ==
    LET same == {i \in 1..Len(semanticColors) :
                    /\ semanticColors[i].color = entry.color
                    /\ semanticColors[i].context = entry.context
                    /\ semanticColors[i].property = entry.property
                    /\ withElement => semanticColors[i].element = entry.element}
    IN  IF same = {} THEN Append(semanticColors, entry)
        ELSE LET first == CHOOSE i \in same : \A j \in same : i <= j
             IN  [semanticColors EXCEPT ![first].frequency = @ + entry.frequency]

RECURSIVE addSemanticColors(_, _, _)
addSemanticColors(semanticColors, entries, withElement) ==
    IF entries = <<>> THEN semanticColors
    ELSE addSemanticColors(addSemanticColor(semanticColors, Head(entries), withElement),
                           Tail(entries), withElement)

\* firstSeenColors after the inline colours of an element have been read
RECURSIVE trackFirstSeen(_, _)
trackFirstSeen(firstSeenColors, style) ==
    IF style = <<>> THEN firstSeenColors
    ELSE trackFirstSeen(IF indexIn(firstSeenColors, Head(style).color) = 0
                        THEN Append(firstSeenColors, Head(style).color)
                        ELSE firstSeenColors,
                        Tail(style))

\* the inline style in the order of COLOR_PROPERTIES
styleInOrder(element) ==
    LET keyed == [i \in 1..Len(element.style) |->
                    [key |-> 0 - indexIn(COLOR_PROPERTIES, element.style[i].prop),
                     s   |-> element.style[i]]]
        srt   == SortDesc(SelectSeq(keyed, LAMBDA k : k.key # 0))
    IN  [i \in 1..Len(srt) |-> srt[i].s]

\* extractInlineColors, as the entries the caller adds for them
extractInlineColors(element, firstSeenColors, row) ==
    LET style == styleInOrder(element)
        seen  == trackFirstSeen(firstSeenColors, style)
    IN  [i \in 1..Len(style) |->
            SemanticColor(style[i].color, element.tagName, row, style[i].prop, 1,
                          element.domDepth, element.documentPosition,
                          indexIn(seen, style[i].color) - 1)]

\* extractComputedStyleColors: style.backgroundColor, style.color and
\* style.borderColor, in that order
extractComputedStyleColors(element, row) ==
    LET props == <<"background-color", "color", "border-color">>
        found == SelectSeq(props, LAMBDA p : \E i \in 1..Len(element.style) :
                                                 element.style[i].prop = p)
    IN  [i \in 1..Len(found) |->
            SemanticColor(element.style[CHOOSE k \in 1..Len(element.style) :
                                            element.style[k].prop = found[i]].color,
                          element.tagName, row, found[i], 1, -1, -1, -1)]

\* the elements of one row: inline colours, then computed-style colours, for
\* each element in turn
RECURSIVE addElementColors(_, _, _)
addElementColors(acc, elements, row) ==
    IF elements = <<>> THEN acc
    ELSE LET element == Head(elements)
             inline  == addSemanticColors(
                            acc.colors,
                            extractInlineColors(element, acc.firstSeenColors, row),
                            FALSE)
             both    == addSemanticColors(inline,
                                          extractComputedStyleColors(element, row),
                                          FALSE)
         IN  addElementColors(
                 [colors |-> both,
                  firstSeenColors |-> trackFirstSeen(acc.firstSeenColors,
                                                     styleInOrder(element))],
                 Tail(elements), row)

\* extractComputedColorsFromElements: the rules of the line parser that
\* might apply to the elements
ruleMatches(rule, elements, context) ==
    /\ rule.multiLine
    /\ indexIn(COLOR_PROPERTIES, rule.prop) # 0
    /\ \/ \E i \in 1..Len(elements) :
             \/ elements[i].tagName \in rule.tags
             \/ elements[i].classes \cap rule.classes # {}
       \/ context = "button" /\ rule.buttonAttr

extractComputedColorsFromElements(css, elements, context) ==
    SelectSeq(css, LAMBDA rule : ruleMatches(rule, elements, context))

\* mutant: the tag name of a missing representative element read as a string
tagNameOfFirstOrUndefined(elements) ==
    IF elements = <<>> THEN "undefined" ELSE elements[1].tagName

\* Array.from(elements)[0].tagName.toLowerCase(), "TypeError" when there is
\* no first element
tagNameOfFirst(elements) ==
    IF elements = <<>> THEN "TypeError" ELSE elements[1].tagName

\* extractContextSpecificColors: the matches of the context's patterns in
\* the CSS text, then the custom properties for header and brand
extractContextSpecificColors(css, row) ==
    LET context  == SEMANTIC_SELECTORS[row].context
        patterns == SelectSeq(css, LAMBDA rule : context \in rule.contexts)
        custom   == IF context \in {"header", "brand"}
                    THEN SelectSeq(css, LAMBDA rule : rule.customProp)
                    ELSE <<>>
    IN  [i \in 1..Len(patterns) |->
            SemanticColor(patterns[i].color, "css-pattern", row,
                          "background-color", 1, -1, -1, -1)]
        \o
        [i \in 1..Len(custom) |->
            SemanticColor(custom[i].color, "css-pattern", row,
                          "background-color", 2, -1, -1, -1)]

\* one pass of the loop over SEMANTIC_SELECTORS, its catch block included:
\* an exception ends the pass and keeps what had been added before
analyzeSelector(acc, page, row) ==
    LET context    == SEMANTIC_SELECTORS[row].context
        elements   == SelectSeq(page.elements, LAMBDA e : row \in e.rows)
        afterElems == addElementColors(acc, elements, row)
        cssColors  == extractComputedColorsFromElements(page.css, elements, context)
        element    == tagNameOfFirst(elements)
        afterCss   == addSemanticColors(
                          afterElems.colors,
                          [i \in 1..Len(cssColors) |->
                              SemanticColor(cssColors[i].color, element, row,
                                            cssColors[i].prop, 1, -1, -1, -1)],
                          TRUE)
    IN  IF cssColors # <<>> /\ element = "TypeError"
        THEN afterElems
        ELSE [colors |-> addSemanticColors(afterCss,
                                           extractContextSpecificColors(page.css, row),
                                           FALSE),
              firstSeenColors |-> afterElems.firstSeenColors]

\* the entries added for the colours of Tailwind classes
tailwindSemanticColors(tailwindColors) ==
    [i \in 1..Len(tailwindColors) |->
        [color |-> tailwindColors[i].color, element |-> "tailwind-class",
         context |-> IF tailwindColors[i].button THEN "button"
                     ELSE IF tailwindColors[i].property = "background-color"
                     THEN "brand" ELSE "accent",
         weight |-> 60, selector |-> tailwindColors[i].className,
         property |-> tailwindColors[i].property,
         frequency |-> tailwindColors[i].frequency,
         domDepth |-> -1, documentPosition |-> -1, firstSeenIndex |-> -1]]

\* semanticColors.sort((a, b) => b.weight * b.frequency - a.weight * a.frequency)
sortSemanticColors(semanticColors) ==
    LET keyed == [i \in 1..Len(semanticColors) |->
                    [key |-> semanticColors[i].weight * semanticColors[i].frequency,
                     s   |-> semanticColors[i]]]
        srt   == SortDesc(keyed)
    IN  [i \in 1..Len(srt) |-> srt[i].s]

-----------------------------------------------------------------------------
(* Specification SpecSemantic: one call of analyzeSemanticColors            *)

\* <button style="color:#1a73e8">, <header class="header"
\* style="background-color:#ff0000">, <nav class="nav">
PageElements ==
    <<Element("button", {}, {1}, <<[prop |-> "color", color |-> Blue]>>, 2, 20),
      Element("header", {"header"}, {7},
              <<[prop |-> "background-color", color |-> Red]>>, 0, 0),
      Element("nav", {"nav"}, {4}, <<>>, 1, 10)>>

\* .btn{background:#1a73e8} on one line; input[type="submit"] with
\* background-color: #ff0000 over several lines; nav with background-color:
\* #fbbc05 over several lines; :root{--brand-main:#8b5cf6}
PageRules ==
    <<CssRule(FALSE, {}, {}, FALSE, {"button"}, FALSE, "background", Blue),
      CssRule(TRUE, {}, {}, TRUE, {}, FALSE, "background-color", Red),
      CssRule(TRUE, {"nav"}, {}, FALSE, {"navigation"}, FALSE, "background-color", Yellow),
      CssRule(FALSE, {}, {}, FALSE, {}, TRUE, "--brand-main", Violet)>>

TailwindChoices ==
    {<<>>,
     <<[color |-> Blue, property |-> "background-color",
        className |-> "bg-blue-500", button |-> FALSE, frequency |-> 2]>>}

\* the subsequence of s at the positions in keep
Subsequence(s, keep) == SelectSeq([i \in 1..Len(s) |-> [at |-> i, x |-> s[i]]],
                                  LAMBDA e : e.at \in keep)

Pages ==
    {[elements |-> [i \in 1..Len(Subsequence(PageElements, E)) |->
                       Subsequence(PageElements, E)[i].x],
      css      |-> [i \in 1..Len(Subsequence(PageRules, R)) |->
                       Subsequence(PageRules, R)[i].x],
      tailwind |-> t] :
        E \in SUBSET (1..Len(PageElements)), R \in SUBSET (1..Len(PageRules)),
        t \in TailwindChoices}

InitSemantic ==
    /\ pc = "start"
    /\ fnInput \in Pages
    /\ fnOutput = <<>>
    /\ IdleRoles /\ IdleTheme /\ IdleDark /\ IdleMulti /\ IdleResolve /\ IdleApi

\* the statements before the loop
AnalyzeTailwindUsage ==
    /\ pc = "start"
    /\ fnOutput' = [row |-> 0,
                    colors |-> tailwindSemanticColors(fnInput.tailwind),
                    firstSeenColors |-> <<>>]
    /\ pc' = "rows"
    /\ UNCHANGED fnInput
    /\ UNCHANGED <<rolesVars, themeVars, darkVars, multiVars, resolveVars, apiVars>>

\* one pass of the loop
AnalyzeSelector ==
    /\ pc = "rows"
    /\ fnOutput.row < Len(SEMANTIC_SELECTORS)
    /\ LET acc == analyzeSelector([colors |-> fnOutput.colors,
                                   firstSeenColors |-> fnOutput.firstSeenColors],
                                  fnInput, fnOutput.row + 1)
       IN  fnOutput' = [row |-> fnOutput.row + 1, colors |-> acc.colors,
                        firstSeenColors |-> acc.firstSeenColors]
    /\ UNCHANGED <<pc, fnInput>>
    /\ UNCHANGED <<rolesVars, themeVars, darkVars, multiVars, resolveVars, apiVars>>

\* the statements after the loop: the result is sorted and returned
ReturnSemanticColors ==
    /\ pc = "rows"
    /\ fnOutput.row = Len(SEMANTIC_SELECTORS)
    /\ fnOutput' = [fnOutput EXCEPT !.colors = sortSemanticColors(@)]
    /\ pc' = "done"
    /\ UNCHANGED fnInput
    /\ UNCHANGED <<rolesVars, themeVars, darkVars, multiVars, resolveVars, apiVars>>

NextSemantic == AnalyzeTailwindUsage \/ AnalyzeSelector \/ ReturnSemanticColors

SpecSemantic == InitSemantic /\ [][NextSemantic]_vars

\* the rows of the table that match no element of the page
EmptyRows ==
    {row \in 1..Len(SEMANTIC_SELECTORS) :
        \A i \in 1..Len(fnInput.elements) : row \notin fnInput.elements[i].rows}

\* the entries of the result that were added in the pass of the given row
AddedByRow(row) ==
    {i \in 1..Len(fnOutput.colors) :
        /\ fnOutput.colors[i].element # "tailwind-class"
        /\ fnOutput.colors[i].selector = SEMANTIC_SELECTORS[row].selector}

\* C24 as stated: a row of the selector table that matches no element adds
\* no entry to the result, and the call returns.
C24_Original ==
    pc = "done" => \A row \in EmptyRows : AddedByRow(row) = {}

\* C24 amended: a row that matches no element adds no entry taken from an
\* element or from a rule the line parser applies to elements, and no error
\* leaves its pass (every row of the table is visited and the call returns);
\* it can still add css-pattern entries, found by the context patterns of
\* button, header, hero, navigation and brand in the CSS text.
C24_EmptyRowAddsOnlyCssPatterns ==
    /\ pc \in {"rows", "done"} =>
          \A row \in EmptyRows : \A i \in AddedByRow(row) :
              /\ fnOutput.colors[i].element = "css-pattern"
              /\ fnOutput.colors[i].context
                    \in {"button", "header", "hero", "navigation", "brand"}
    /\ pc = "done" => fnOutput.row = Len(SEMANTIC_SELECTORS)

\* C24 witness: the page has no button and no header element, its CSS holds
\* a rule for input[type="submit"] written over several lines (the pass of
\* the button row ends in its catch block) and :root{--brand-main:#8b5cf6},
\* and the result holds a css-pattern entry added in the pass of the header
\* row.
C24_Witness ==
    /\ pc = "done"
    /\ {1, 7} \subseteq EmptyRows
    /\ \E i \in 1..Len(fnInput.css) : fnInput.css[i].buttonAttr /\ fnInput.css[i].multiLine
    /\ \E i \in AddedByRow(7) :
          /\ fnOutput.colors[i].element = "css-pattern"
          /\ fnOutput.colors[i].color = Violet

-----------------------------------------------------------------------------
(* SecurityValidator and HttpClient                                         *)
(*                                                                         *)
(* A URL is what validateUrl reads of it: the protocol and the host name,  *)
(* the latter as its sequence of dot-separated labels.                     *)

ParsedUrl(protocol, hostname) == [protocol |-> protocol, hostname |-> hostname]

maxConcurrentRequests == 5

\* the entries of blockedHosts that are host names
blockedHosts ==
    {<<"localhost">>, <<"127", "0", "0", "1">>, <<"0", "0", "0", "0">>, <<"::1">>}

\* hostname === blockedPattern || hostname.endsWith('.' + blockedPattern)
endsWithHost(hostname, blocked) ==
    /\ Len(hostname) >= Len(blocked)
    /\ SubSeq(hostname, Len(hostname) - Len(blocked) + 1, Len(hostname)) = blocked

\* isIpInCidr for the four ranges of blockedHosts
isIpInCidr(hostname) ==
    \/ hostname[1] = "10"
    \/ /\ hostname[1] = "172" /\ Len(hostname) >= 2
       /\ hostname[2] \in {"16", "17", "18", "19", "20", "21", "22", "23", "24",
                            "25", "26", "27", "28", "29", "30", "31"}
    \/ Len(hostname) >= 2 /\ hostname[1] = "192" /\ hostname[2] = "168"
    \/ Len(hostname) >= 2 /\ hostname[1] = "169" /\ hostname[2] = "254"

\* validateUrl: the code of the ValidationError thrown, "ok" when the URL is
\* returned (allowedHosts is empty)
validateUrl(url) ==
    IF url.protocol \notin {"http:", "https:"} THEN "INVALID_PROTOCOL"
    ELSE IF \/ \E blocked \in blockedHosts : endsWithHost(url.hostname, blocked)
            \/ isIpInCidr(url.hostname)
    THEN "BLOCKED_HOST"
    ELSE "ok"

\* checkConcurrentRequests
checkConcurrentRequests(activeRequests) ==
    IF activeRequests >= maxConcurrentRequests THEN "TOO_MANY_REQUESTS" ELSE "ok"

acquireRequest(activeRequests) == activeRequests + 1

releaseRequest(activeRequests) == Max2(0, activeRequests - 1)

\* what a call makes of the settled retryRequest: fetchCss resolves to the
\* text, to '' for a response that is not text and to '' after any error;
\* fetchHtml rejects where fetchCss gives ''
settled(fn, response) ==
    IF response = "text" THEN [kind |-> "resolved", value |-> "text"]
    ELSE IF fn = "fetchCss" THEN [kind |-> "resolved", value |-> ""]
    ELSE [kind |-> "rejected",
          value |-> IF response = "notText" THEN "INVALID_CONTENT_TYPE"
                    ELSE IF response = "tooLarge" THEN "CONTENT_TOO_LARGE"
                    ELSE "SERVER_ERROR"]

-----------------------------------------------------------------------------
(* Specification SpecHttp: the calls made on one HttpClient                 *)
(*                                                                         *)
(* fnInput holds the calls in the order in which they are made, fnOutput   *)
(* the counter of the SecurityValidator and, for each call, where it       *)
(* stands and what it has settled to. A call gives up control at each of   *)
(* its awaits, where any other call can run.                               *)

MaxCalls == 6

StylesheetUrl == ParsedUrl("https:", <<"cdn", "acme", "com">>)
LocalUrl      == ParsedUrl("http:", <<"localhost">>)
PrivateUrl    == ParsedUrl("http:", <<"192", "168", "1", "10">>)
FtpUrl        == ParsedUrl("ftp:", <<"files", "acme", "com">>)

Call(fn, url, response) == [fn |-> fn, url |-> url, response |-> response]

\* one call that differs from the fetch of an ordinary style sheet
OddCalls ==
    {Call("fetchCss", LocalUrl, "text"), Call("fetchCss", PrivateUrl, "text"),
     Call("fetchCss", FtpUrl, "text"), Call("fetchCss", StylesheetUrl, "error"),
     Call("fetchCss", StylesheetUrl, "notText"),
     Call("fetchCss", StylesheetUrl, "tooLarge"),
     Call("fetchHtml", StylesheetUrl, "text"),
     Call("fetchHtml", LocalUrl, "text"),
     Call("fetchHtml", StylesheetUrl, "error")}

CallLists ==
    {[i \in 1..MaxCalls |-> Call("fetchCss", StylesheetUrl, "text")]}
    \cup {[i \in 1..MaxCalls |-> IF i = at THEN odd
                                 ELSE Call("fetchCss", StylesheetUrl, "text")] :
            at \in {1, MaxCalls}, odd \in OddCalls}

Pending == [kind |-> "pending", value |-> ""]

InitHttp ==
    /\ pc = "http"
    /\ fnInput \in CallLists
    /\ fnOutput = [activeRequests |-> 0,
                   stage   |-> [i \in 1..MaxCalls |-> "new"],
                   outcome |-> [i \in 1..MaxCalls |-> Pending]]
    /\ IdleRoles /\ IdleTheme /\ IdleDark /\ IdleMulti /\ IdleResolve /\ IdleApi

\* fetchHtml or fetchCss up to its first await: validateUrl, outside the try
\* block, then the call of checkConcurrentRequests, whose body runs at once
CallFetch(i) ==
    /\ pc = "http"
    /\ fnOutput.stage[i] = "new"
    /\ \A j \in 1..(i - 1) : fnOutput.stage[j] # "new"
    /\ LET valid == validateUrl(fnInput[i].url)
           check == checkConcurrentRequests(fnOutput.activeRequests)
       IN  fnOutput' =
             IF valid # "ok"
             THEN [fnOutput EXCEPT !.stage[i] = "done",
                       !.outcome[i] = [kind |-> "rejected", value |-> valid]]
             ELSE IF check # "ok"
             THEN [fnOutput EXCEPT !.stage[i] = "refused"]
             ELSE [fnOutput EXCEPT !.stage[i] = "checked"]
    /\ UNCHANGED <<pc, fnInput>>
    /\ UNCHANGED <<rolesVars, themeVars, darkVars, multiVars, resolveVars, apiVars>>

\* the await of a passed check returns: acquireRequest, and retryRequest
\* sends the request
AcquireAndSend(i) ==
    /\ pc = "http"
    /\ fnOutput.stage[i] = "checked"
    /\ fnOutput' = [fnOutput EXCEPT !.stage[i] = "inflight",
                        !.activeRequests = acquireRequest(@)]
    /\ UNCHANGED <<pc, fnInput>>
    /\ UNCHANGED <<rolesVars, themeVars, darkVars, multiVars, resolveVars, apiVars>>

\* the await of a failed check throws: the catch block, then the finally
\* block with its releaseRequest
Refuse(i) ==
    /\ pc = "http"
    /\ fnOutput.stage[i] = "refused"
    /\ fnOutput' = [fnOutput EXCEPT !.stage[i] = "done",
                        !.outcome[i] =
                            IF fnInput[i].fn = "fetchCss"
                            THEN [kind |-> "resolved", value |-> ""]
                            ELSE [kind |-> "rejected", value |-> "TOO_MANY_REQUESTS"],
                        !.activeRequests = releaseRequest(@)]
    /\ UNCHANGED <<pc, fnInput>>
    /\ UNCHANGED <<rolesVars, themeVars, darkVars, multiVars, resolveVars, apiVars>>

\* retryRequest settles: the rest of the try block, the catch block on an
\* error, and the finally block
Settle(i) ==
    /\ pc = "http"
    /\ fnOutput.stage[i] = "inflight"
    /\ fnOutput' = [fnOutput EXCEPT !.stage[i] = "done",
                        !.outcome[i] = settled(fnInput[i].fn, fnInput[i].response),
                        !.activeRequests = releaseRequest(@)]
    /\ UNCHANGED <<pc, fnInput>>
    /\ UNCHANGED <<rolesVars, themeVars, darkVars, multiVars, resolveVars, apiVars>>

NextHttp ==
    \E i \in 1..MaxCalls :
        CallFetch(i) \/ AcquireAndSend(i) \/ Refuse(i) \/ Settle(i)

SpecHttp == InitHttp /\ [][NextHttp]_vars

\* the calls whose request has been sent and has not settled
InFlight == {i \in 1..MaxCalls : fnOutput.stage[i] = "inflight"}

\* C25: the number of requests of one HttpClient that are in flight at the
\* same time never exceeds maxConcurrentRequests.
C25_InFlightBounded ==
    pc = "http" => Cardinality(InFlight) <= maxConcurrentRequests

\* C27: fetchCss never rejects; a call that has returned has resolved, and to
\* the empty string when its URL failed validation.
C27_FetchCssNeverRejects ==
    pc = "http" =>
        \A i \in 1..MaxCalls :
            (fnInput[i].fn = "fetchCss" /\ fnOutput.stage[i] = "done")
                => /\ fnOutput.outcome[i].kind = "resolved"
                   /\ validateUrl(fnInput[i].url) # "ok"
                         => fnOutput.outcome[i].value = ""

-----------------------------------------------------------------------------
(* Specification SpecRetry: one call of retryRequest                        *)
(*                                                                         *)
(* fnInput holds what the request function gives on its successive         *)
(* invocations; fnOutput the loop variable, the number of invocations      *)
(* made, lastError and what the call has settled to.                       *)

\* maxRetries: number = 3
maxRetries == 3

MaxInvocations == 5

\* a response, or an error as isNonRetryableError reads it: whether it has a
\* code property, whether it is an AxiosError, and the status of its response
\* (0 when it has none)
Response == [ok |-> TRUE, hasCode |-> FALSE, isAxios |-> FALSE, status |-> 200]

RequestError(hasCode, isAxios, status) ==
    [ok |-> FALSE, hasCode |-> hasCode, isAxios |-> isAxios, status |-> status]

\* a ValidationError (CONTENT_TOO_LARGE thrown by the response interceptor)
ContentTooLarge == RequestError(TRUE, FALSE, 0)
\* AxiosErrors for the statuses 404, 429 and 503, as axios builds that leave
\* the code of a status error unset make them, and 503 as the builds that
\* set it (ERR_BAD_RESPONSE) make it
NotFound            == RequestError(FALSE, TRUE, 404)
TooManyRequests     == RequestError(FALSE, TRUE, 429)
Unavailable         == RequestError(FALSE, TRUE, 503)
UnavailableWithCode == RequestError(TRUE, TRUE, 503)
\* an error that is no AxiosError and has no code
PlainError == RequestError(FALSE, FALSE, 0)

RequestResults ==
    {Response, ContentTooLarge, NotFound, TooManyRequests, Unavailable,
     UnavailableWithCode, PlainError}

\* mutant: no error ends the retries
isNonRetryableErrorNever(error) == FALSE

\* isNonRetryableError
isNonRetryableError(error) ==
    IF error.hasCode THEN TRUE
    ELSE IF error.isAxios /\ error.status # 0
    THEN error.status >= 400 /\ error.status < 500 /\ error.status # 429
    ELSE FALSE

InitRetry ==
    /\ pc = "requestFn"
    /\ fnInput \in [1..MaxInvocations -> RequestResults]
    /\ fnOutput = [attempt |-> 0, invoked |-> 0, lastError |-> <<>>,
                   outcome |-> Pending]
    /\ IdleRoles /\ IdleTheme /\ IdleDark /\ IdleMulti /\ IdleResolve /\ IdleApi

\* `return await requestFn()` and, on an error, the catch block up to the
\* backoff
InvokeRequestFn ==
    /\ pc = "requestFn"
    /\ fnOutput.attempt <= maxRetries
    /\ fnOutput.invoked < MaxInvocations
    /\ LET result == fnInput[fnOutput.invoked + 1]
           called == [fnOutput EXCEPT !.invoked = @ + 1]
       IN  IF result.ok
           THEN /\ fnOutput' = [called EXCEPT
                                   !.outcome = [kind |-> "resolved", value |-> result]]
                /\ pc' = "done"
           ELSE IF isNonRetryableError(result)
           THEN /\ fnOutput' = [called EXCEPT !.lastError = result,
                                   !.outcome = [kind |-> "rejected", value |-> result]]
                /\ pc' = "done"
           ELSE IF fnOutput.attempt = maxRetries
           THEN /\ fnOutput' = [called EXCEPT !.lastError = result,
                                   !.outcome = [kind |-> "rejected", value |-> result]]
                /\ pc' = "done"
           ELSE /\ fnOutput' = [called EXCEPT !.lastError = result]
                /\ pc' = "backoff"
    /\ UNCHANGED fnInput
    /\ UNCHANGED <<rolesVars, themeVars, darkVars, multiVars, resolveVars, apiVars>>

\* the timer of the backoff fires; attempt++
Backoff ==
    /\ pc = "backoff"
    /\ fnOutput' = [fnOutput EXCEPT !.attempt = @ + 1]
    /\ pc' = "requestFn"
    /\ UNCHANGED fnInput
    /\ UNCHANGED <<rolesVars, themeVars, darkVars, multiVars, resolveVars, apiVars>>

NextRetry == InvokeRequestFn \/ Backoff

SpecRetry == InitRetry /\ [][NextRetry]_vars

\* the errors the description of retryRequest calls non-retryable: a
\* validation error, or an HTTP status from 400 to 499 other than 429
DescribedNonRetryable(result) ==
    /\ ~result.ok
    /\ \/ result.hasCode /\ ~result.isAxios
       \/ result.isAxios /\ result.status >= 400 /\ result.status < 500
          /\ result.status # 429

\* C29: retryRequest invokes the request function at most maxRetries + 1
\* times; every invocation but the last one made gave an error that is not
\* non-retryable; and a call that has ended with every attempt failed has
\* rejected with the error of its last attempt.
C29_BoundedRetries ==
    pc \in {"requestFn", "backoff", "done"} =>
        /\ fnOutput.invoked <= maxRetries + 1
        /\ \A k \in 1..(fnOutput.invoked - 1) :
              ~fnInput[k].ok /\ ~DescribedNonRetryable(fnInput[k])
        /\ (pc = "done" /\ \A k \in 1..fnOutput.invoked : ~fnInput[k].ok)
              => fnOutput.outcome = [kind |-> "rejected",
                                     value |-> fnInput[fnOutput.invoked]]
        /\ (pc = "done" /\ fnInput[fnOutput.invoked].ok)
              => fnOutput.outcome = [kind |-> "resolved",
                                     value |-> fnInput[fnOutput.invoked]]

\* C29 witness: four attempts were made, all failed with retryable errors,
\* a fifth result was available, and the call rejected with the fourth.
C29_Witness ==
    /\ pc = "done"
    /\ fnOutput.invoked = maxRetries + 1
    /\ fnInput[1] = Unavailable /\ fnInput[2] = TooManyRequests
    /\ fnInput[3] = PlainError /\ fnInput[4] = Unavailable
    /\ fnInput[5] = Response
    /\ fnOutput.outcome = [kind |-> "rejected", value |-> Unavailable]

=============================================================================
